---- MODULE Spec2Model ----
(***************************************************************************)
(* Release reconciliation engine of partner-charts-ci: the version         *)
(* selector (pkg/pkg/wrapper.go), the chart integrator (main.go and        *)
(* pkg/conform) and the release validator (pkg/validate/modification.go).  *)
(***************************************************************************)
EXTENDS Integers, Sequences, FiniteSets, TLC

(***************************************************************************)
(* Version strings and semantic versions.                                  *)
(*                                                                         *)
(* A version STRING is a record [form, major, minor, patch, pre]:          *)
(*   form = "plain"  the text "major.minor.patch[-pre]"                    *)
(*   form = "v"      the same text with a leading "v"                      *)
(*   form = "short"  the text "major.minor" (a tracked release stream)     *)
(*   form = "bad"    text that semver.NewVersion rejects                   *)
(*   form = "empty"  the empty string, which it rejects as well            *)
(* pre is "" or a dot-free pre-release tag.  A parsed semantic version is  *)
(* a record [major, minor, patch, pre]; Nil stands for the nil pointer     *)
(* that semver.NewVersion returns with an error.                           *)
(***************************************************************************)
Nil == [nil |-> TRUE]

Panic == [panic |-> TRUE]

NoPre == ""

VerStr(form, major, minor, patch, pre) ==
    [form |-> form, major |-> major, minor |-> minor, patch |-> patch, pre |-> pre]

Plain(major, minor, patch) == VerStr("plain", major, minor, patch, NoPre)

BadStr == VerStr("bad", 0, 0, 0, NoPre)

\* The empty string "".
EmptyStr == VerStr("empty", 0, 0, 0, NoPre)

\* semver.NewVersion: lenient parse, a leading "v" is accepted and dropped and
\* a missing patch number ("1.1", form "short") reads as 0.
NewVersion(s) ==
    IF s.form \in {"bad", "empty"}
    THEN Nil
    ELSE [major |-> s.major, minor |-> s.minor, patch |-> s.patch, pre |-> s.pre]

\* (*semver.Version).String: the canonical text, never with a leading "v".
String(ver) == VerStr("plain", ver.major, ver.minor, ver.patch, ver.pre)

\* (*semver.Version).Compare: -1, 0 or 1; a pre-release sorts below its release.
Compare(a, b) ==
    IF a.major # b.major THEN (IF a.major < b.major THEN -1 ELSE 1)
    ELSE IF a.minor # b.minor THEN (IF a.minor < b.minor THEN -1 ELSE 1)
    ELSE IF a.patch # b.patch THEN (IF a.patch < b.patch THEN -1 ELSE 1)
    ELSE IF a.pre = b.pre THEN 0
    ELSE IF a.pre = NoPre THEN 1
    ELSE IF b.pre = NoPre THEN -1
    ELSE 0

GreaterThan(a, b) == Compare(a, b) = 1

(***************************************************************************)
(* pkg/conform: package-version encoding.                                  *)
(***************************************************************************)
PatchNumMultiplier == 100

MaxPatchNum == PatchNumMultiplier - 1

\* strings.Split(version.String(), ".") with element 2 replaced by the new
\* patch number and the result parsed again: the third element held the patch
\* and the (dot-free) pre-release tag, so the tag is lost.
ReplacePatch(ver, patchVersion) ==
    [major |-> ver.major, minor |-> ver.minor, patch |-> patchVersion, pre |-> NoPre]

\* conform.StripPackageVersion.  A string that does not parse leaves a nil
\* version whose Patch() call panics.
StripPackageVersion(chartVersion) ==
    LET version == NewVersion(chartVersion) IN
    IF version = Nil THEN Panic
    ELSE IF version.patch >= PatchNumMultiplier
         THEN LET packageVersion == version.patch % 2
                  patchVersion == (version.patch - packageVersion) \div PatchNumMultiplier
              IN  String(ReplacePatch(version, patchVersion))
         ELSE String(version)

\* conform.GeneratePackageVersion with a non-nil packageVersion pointer (the
\* only caller, addAnnotations, always passes one).  uint64(*packageVersion)
\* of a negative int wraps to a value far above MaxPatchNum.
GeneratePackageVersion(upstreamChartVersion, packageVersion) ==
    LET chartVersion == NewVersion(upstreamChartVersion) IN
    IF chartVersion = Nil
    THEN [version |-> EmptyStr, err |-> TRUE]
    ELSE IF packageVersion < 0 \/ packageVersion >= MaxPatchNum
    THEN [version |-> EmptyStr, err |-> TRUE]
    ELSE LET patchVersion == PatchNumMultiplier * chartVersion.patch + packageVersion
         IN  [version |-> String(ReplacePatch(chartVersion, patchVersion)), err |-> FALSE]

(***************************************************************************)
(* Sequence helpers.                                                       *)
(***************************************************************************)
Range(seq) == {seq[i] : i \in 1..Len(seq)}

RECURSIVE Concat(_)
Concat(seqs) == IF seqs = <<>> THEN <<>> ELSE Head(seqs) \o Concat(Tail(seqs))

\* The newest element of a non-empty set of parsable version strings.
Newest(S) == CHOOSE x \in S : \A y \in S : Compare(NewVersion(x), NewVersion(y)) >= 0

\* repo.IndexFile.SortEntries: versions in descending semantic order.
RECURSIVE SortEntries(_)
SortEntries(S) ==
    IF S = {} THEN <<>> ELSE <<Newest(S)>> \o SortEntries(S \ {Newest(S)})

(***************************************************************************)
(* Version Selector (pkg/pkg/wrapper.go).                                  *)
(***************************************************************************)
\* strings.ToLower on the fetch values the model uses.
ToLower(str) == IF str = "Latest" THEN "latest" ELSE str

\* stripPreRelease: drops strings that do not parse and pre-releases.
KeepRelease(version) ==
    NewVersion(version) # Nil /\ NewVersion(version).pre = NoPre

\* stripPreRelease without the pre-release test.
KeepParsable(version) == NewVersion(version) # Nil

stripPreReleaseKeepsTagged(versions) == SelectSeq(versions, KeepParsable)

stripPreRelease(versions) == SelectSeq(versions, KeepRelease)

\* The inner loop of collectTrackedVersions for one tracked stream, from
\* position i on: a version of the stream is appended, a version below the
\* stream ends the scan, anything else is passed over.
RECURSIVE TrackedScan(_, _, _)
TrackedScan(versions, trackedVersion, i) ==
    IF i > Len(versions) THEN <<>>
    ELSE LET semVer == NewVersion(versions[i])
             trackedSemVer == NewVersion(trackedVersion)
         IN  IF semVer = Nil \/ trackedSemVer = Nil
             THEN TrackedScan(versions, trackedVersion, i + 1)
             ELSE IF semVer.major = trackedSemVer.major /\ semVer.minor = trackedSemVer.minor
             THEN <<versions[i]>> \o TrackedScan(versions, trackedVersion, i + 1)
             ELSE IF semVer.major < trackedSemVer.major
                     \/ (semVer.major = trackedSemVer.major /\ semVer.minor < trackedSemVer.minor)
             THEN <<>>
             ELSE TrackedScan(versions, trackedVersion, i + 1)

\* collectTrackedVersions without the stream test: every stream gets the
\* whole list.
collectTrackedVersionsAnyStream(versions, tracked) ==
    [t \in Range(tracked) |-> versions]

\* collectTrackedVersions: the map from tracked stream to its versions.
collectTrackedVersions(versions, tracked) ==
    [t \in Range(tracked) |-> TrackedScan(versions, t, 1)]

\* The stored-version test inside collectNonStoredVersions.
IsStored(parsedVersion, storedVersions) ==
    \E k \in 1..Len(storedVersions) :
        \/ storedVersions[k] = String(parsedVersion)
        \/ StripPackageVersion(storedVersions[k]) = String(parsedVersion)

\* The `newer` comparison made against the oldest stored version.
NewerThanStoredOldest(semVer, storedVersions) ==
    GreaterThan(semVer, NewVersion(StripPackageVersion(storedVersions[Len(storedVersions)])))

\* The `newer` comparison inside collectNonStoredVersions.
NewerThanStoredLatest(semVer, storedVersions) ==
    GreaterThan(semVer, NewVersion(StripPackageVersion(storedVersions[1])))

\* The loop of collectNonStoredVersions without the early exit on a stored
\* newest version.
RECURSIVE NonStoredScanNoExit(_, _, _, _)
NonStoredScanNoExit(versions, storedVersions, fetch, i) ==
    IF i > Len(versions) THEN <<>>
    ELSE LET version == versions[i]
             parsedVersion == NewVersion(version)
             stored == IsStored(parsedVersion, storedVersions)
             rest == NonStoredScanNoExit(versions, storedVersions, fetch, i + 1)
         IN  IF stored THEN rest
             ELSE IF fetch = "newer"
             THEN IF Len(storedVersions) > 0
                  THEN IF NewerThanStoredLatest(parsedVersion, storedVersions)
                       THEN <<version>> \o rest
                       ELSE rest
                  ELSE <<version>> \o rest
             ELSE IF fetch = "all"
             THEN <<version>> \o rest
             ELSE <<version>>

\* The loop of collectNonStoredVersions from position i on.
RECURSIVE NonStoredScan(_, _, _, _)
NonStoredScan(versions, storedVersions, fetch, i) ==
    IF i > Len(versions) THEN <<>>
    ELSE LET version == versions[i]
             parsedVersion == NewVersion(version)
             stored == IsStored(parsedVersion, storedVersions)
             rest == NonStoredScan(versions, storedVersions, fetch, i + 1)
         IN  IF stored /\ i = 1 /\ (ToLower(fetch) = "" \/ ToLower(fetch) = "latest")
             THEN <<>>
             ELSE IF stored THEN rest
             ELSE IF fetch = "newer"
             THEN IF Len(storedVersions) > 0
                  THEN IF NewerThanStoredLatest(parsedVersion, storedVersions)
                       THEN <<version>> \o rest
                       ELSE rest
                  ELSE <<version>> \o rest
             ELSE IF fetch = "all"
             THEN <<version>> \o rest
             ELSE <<version>>

collectNonStoredVersions(versions, storedVersions, fetch) ==
    NonStoredScan(versions, storedVersions, fetch, 1)

\* getStoredVersions: the package's entries of index.yaml as
\* repo.LoadIndexFile returns them, newest first.
getStoredVersions(indexVersions) == SortEntries(indexVersions)

\* The calls of collectNonStoredVersions that filterVersions makes, in order,
\* each with its arguments and its result.
SelectorCall(versions, storedVersions, fetch) ==
    [versions |-> versions, stored |-> storedVersions, fetch |-> fetch,
     result |-> collectNonStoredVersions(versions, storedVersions, fetch)]

filterCalls(upstreamVersions, indexVersions, fetch, tracked) ==
    LET stripped == stripPreRelease(upstreamVersions)
        allStoredVersions == getStoredVersions(indexVersions)
    IN  IF Len(stripped) = 0 THEN <<>>
        ELSE IF Len(tracked) > 0
        THEN LET allTrackedVersions == collectTrackedVersions(stripped, tracked)
                 storedTrackedVersions == collectTrackedVersions(allStoredVersions, tracked)
             IN  [k \in 1..Len(tracked) |->
                     SelectorCall(allTrackedVersions[tracked[k]],
                                  storedTrackedVersions[tracked[k]], fetch)]
        ELSE <<SelectorCall(stripped, allStoredVersions, fetch)>>

\* getLatestTracked from position i on, latestTracked being the newest stream
\* found so far.  A tracked string that does not parse leaves semVer nil:
\* it is assigned while latestTracked is still nil, and semVer.GreaterThan
\* panics on it afterwards.
RECURSIVE LatestTrackedScan(_, _, _)
LatestTrackedScan(tracked, i, latestTracked) ==
    IF i > Len(tracked) THEN latestTracked
    ELSE LET semVer == NewVersion(tracked[i]) IN
         IF latestTracked = Nil THEN LatestTrackedScan(tracked, i + 1, semVer)
         ELSE IF semVer = Nil THEN Panic
         ELSE IF GreaterThan(semVer, latestTracked)
         THEN LatestTrackedScan(tracked, i + 1, semVer)
         ELSE LatestTrackedScan(tracked, i + 1, latestTracked)

getLatestTracked(tracked) == LatestTrackedScan(tracked, 1, Nil)

\* The loop of checkNewerUntracked from position i on: the versions above
\* the newest tracked stream, up to the first version of that stream.
\* Major() on a nil version panics.
RECURSIVE NewerUntrackedScan(_, _, _)
NewerUntrackedScan(upstreamVersions, latestTracked, i) ==
    IF i > Len(upstreamVersions) THEN [panic |-> FALSE, versions |-> <<>>]
    ELSE LET semVer == NewVersion(upstreamVersions[i]) IN
         IF semVer = Nil \/ latestTracked = Nil
         THEN [panic |-> TRUE, versions |-> <<>>]
         ELSE IF semVer.major > latestTracked.major
                 \/ (semVer.major = latestTracked.major /\ semVer.minor > latestTracked.minor)
         THEN LET rest == NewerUntrackedScan(upstreamVersions, latestTracked, i + 1)
              IN  [panic |-> rest.panic, versions |-> <<String(semVer)>> \o rest.versions]
         ELSE IF semVer.major = latestTracked.major /\ semVer.minor = latestTracked.minor
         THEN [panic |-> FALSE, versions |-> <<>>]
         ELSE NewerUntrackedScan(upstreamVersions, latestTracked, i + 1)

\* checkNewerUntracked: the versions it returns for logging, or a panic.
checkNewerUntracked(tracked, upstreamVersions) ==
    IF getLatestTracked(tracked) = Panic THEN [panic |-> TRUE, versions |-> <<>>]
    ELSE IF Len(tracked) = 0 THEN [panic |-> FALSE, versions |-> <<>>]
    ELSE NewerUntrackedScan(upstreamVersions, getLatestTracked(tracked), 1)

\* filterVersions: the selection, whether an error is returned, and whether
\* the call panics instead of returning: upstreamVersions[0] is read before
\* anything else, and checkNewerUntracked runs when streams are tracked.
filterVersions(upstreamVersions, indexVersions, fetch, tracked) ==
    IF Len(upstreamVersions) = 0
       \/ (Len(tracked) > 0
           /\ checkNewerUntracked(tracked, stripPreRelease(upstreamVersions)).panic)
    THEN [panic |-> TRUE, err |-> FALSE, calls |-> <<>>, versions |-> <<>>]
    ELSE LET calls == filterCalls(upstreamVersions, indexVersions, fetch, tracked)
         IN  [panic |-> FALSE,
              err |-> Len(stripPreRelease(upstreamVersions)) = 0,
              calls |-> calls,
              versions |-> Concat([k \in 1..Len(calls) |-> calls[k].result])]

(***************************************************************************)
(* Maps (Go map[string]string) as functions on a finite set of keys.       *)
(***************************************************************************)
EmptyMap == <<>>

Put(m, k, v) == [x \in (DOMAIN m) \cup {k} |-> IF x = k THEN v ELSE m[x]]

Remove(m, k) == [x \in (DOMAIN m) \ {k} |-> m[x]]

Has(m, k) == k \in DOMAIN m

(***************************************************************************)
(* Charts.  A chart is [Metadata, Files]; Metadata has the fields of       *)
(* helm's chart.Metadata, Files maps a relative path to its content.  A    *)
(* ChartWrapper (main.go) pairs a chart with its Modified flag.  An icon   *)
(* URL is a record [scheme, name, ext] read as scheme + name + ext.        *)
(***************************************************************************)
annotationAutoInstall == "catalog.cattle.io/auto-install"

annotationCertified == "catalog.cattle.io/certified"

annotationDisplayName == "catalog.cattle.io/display-name"

annotationExperimental == "catalog.cattle.io/experimental"

annotationFeatured == "catalog.cattle.io/featured"

annotationHidden == "catalog.cattle.io/hidden"

annotationKubeVersion == "catalog.cattle.io/kube-version"

annotationNamespace == "catalog.cattle.io/namespace"

annotationReleaseName == "catalog.cattle.io/release-name"

NoIcon == [scheme |-> "", name |-> "", ext |-> ""]

NewChartWrapper(helmChart) == [Chart |-> helmChart, Modified |-> FALSE]

SetMeta(helmChart, field, value) ==
    [helmChart EXCEPT !.Metadata = [helmChart.Metadata EXCEPT ![field] = value]]

(***************************************************************************)
(* pkg/conform: annotations and the metadata overlay.                      *)
(***************************************************************************)
\* conform.AnnotateChart: the chart afterwards and the returned flag.
AnnotateChart(helmChart, annotation, value, override) ==
    LET current == helmChart.Metadata.Annotations
        ok == Has(current, annotation)
    IN  IF ~ok \/ (ok /\ current[annotation] # value /\ override)
        THEN [chart |-> SetMeta(helmChart, "Annotations", Put(current, annotation, value)),
              modified |-> TRUE]
        ELSE [chart |-> helmChart, modified |-> FALSE]

\* conform.DeannotateChart: the chart afterwards and the returned flag.
DeannotateChart(helmChart, annotation, value) ==
    LET current == helmChart.Metadata.Annotations
        removeAnnotation ==
            Has(current, annotation) /\ (value = "" \/ current[annotation] = value)
    IN  IF removeAnnotation
        THEN [chart |-> SetMeta(helmChart, "Annotations", Remove(current, annotation)),
              modified |-> TRUE]
        ELSE [chart |-> helmChart, modified |-> FALSE]

\* conform.ApplyChartAnnotations: AnnotateChart for every entry of the map
\* (the keys are distinct, so the iteration order does not matter).
ApplyChartAnnotations(helmChart, annotations, override) ==
    LET current == helmChart.Metadata.Annotations
        merged == [k \in (DOMAIN current) \cup (DOMAIN annotations) |->
                      IF Has(annotations, k)
                      THEN AnnotateChart(helmChart, k, annotations[k], override).chart.Metadata.Annotations[k]
                      ELSE current[k]]
    IN  SetMeta(helmChart, "Annotations", merged)

ScalarFields ==
    {"Name", "Home", "Description", "APIVersion", "Condition", "Tags", "AppVersion", "Type"}

ListFields == {"Sources", "Keywords", "Maintainers", "Dependencies"}

\* conform.OverlayChartMetadata.  The KubeVersion assignment is commented
\* out in the source, so that field is never overlaid.
OverlayChartMetadata(helmChart, overlay) ==
    LET md == helmChart.Metadata
        merged == [f \in DOMAIN md |->
            IF f \in ScalarFields THEN (IF overlay[f] # "" THEN overlay[f] ELSE md[f])
            ELSE IF f \in ListFields THEN md[f] \o overlay[f]
            ELSE IF f = "Version" THEN (IF overlay.Version # EmptyStr THEN overlay.Version ELSE md.Version)
            ELSE IF f = "Icon" THEN (IF overlay.Icon # NoIcon THEN overlay.Icon ELSE md.Icon)
            ELSE IF f = "Deprecated" THEN (IF overlay.Deprecated THEN TRUE ELSE md.Deprecated)
            ELSE IF f = "Annotations"
                 THEN ApplyChartAnnotations(helmChart, overlay.Annotations, TRUE).Metadata.Annotations
            ELSE md[f]]
    IN  [helmChart EXCEPT !.Metadata = merged]

(***************************************************************************)
(* Chart Integrator (main.go).  A package wrapper is a record              *)
(* [Name, DisplayName, OverlayFiles, UpstreamYaml]; errors are strings,    *)
(* "" standing for a nil error.                                            *)
(***************************************************************************)
NoErr == ""

\* applyOverlayFiles: an overlay file replaces the content of the chart file
\* of the same path or is added to the chart's files.
applyOverlayFiles(overlayFiles, helmChart) ==
    [helmChart EXCEPT !.Files =
        [f \in (DOMAIN helmChart.Files) \cup (DOMAIN overlayFiles) |->
            IF Has(overlayFiles, f) THEN overlayFiles[f] ELSE helmChart.Files[f]]]

\* annotations[k] = v under a condition, as addAnnotations fills its map.
PutIf(cond, m, k, v) == IF cond THEN Put(m, k, v) ELSE m

\* The kube-version entry of addAnnotations' map: the overlay's KubeVersion
\* comes before the chart's own.
PutKubeVersion(m, overlayKubeVersion, chartKubeVersion) ==
    IF overlayKubeVersion # "" THEN Put(m, annotationKubeVersion, overlayKubeVersion)
    ELSE IF chartKubeVersion # "" THEN Put(m, annotationKubeVersion, chartKubeVersion)
    ELSE m

\* The annotations map that addAnnotations builds before it applies it.
PackageAnnotations(packageWrapper, helmChart) ==
    LET uy == packageWrapper.UpstreamYaml
        a1 == PutIf(uy.AutoInstall # "", EmptyMap, annotationAutoInstall, uy.AutoInstall)
        a2 == PutIf(uy.Experimental, a1, annotationExperimental, "true")
        a3 == PutIf(uy.Hidden, a2, annotationHidden, "true")
        a4 == Put(a3, annotationCertified, "partner")
        a5 == Put(a4, annotationDisplayName, packageWrapper.DisplayName)
        a6 == Put(a5, annotationReleaseName, uy.ReleaseName)
        a7 == PutIf(uy.Namespace # "", a6, annotationNamespace, uy.Namespace)
    IN  PutKubeVersion(a7, uy.ChartMetadata.KubeVersion, helmChart.Metadata.KubeVersion)

\* addAnnotations: the chart afterwards and the returned error.  The
\* generated version is assigned before the error is looked at.
addAnnotations(packageWrapper, helmChart) ==
    LET annotations == PackageAnnotations(packageWrapper, helmChart)
        packageVersion == packageWrapper.UpstreamYaml.PackageVersion
        generated == GeneratePackageVersion(helmChart.Metadata.Version, packageVersion)
        versioned == IF packageVersion # 0
                     THEN SetMeta(helmChart, "Version", generated.version)
                     ELSE helmChart
    IN  IF packageVersion # 0 /\ generated.err
        THEN [chart |-> versioned, err |-> "failed to generate version"]
        ELSE [chart |-> ApplyChartAnnotations(versioned, annotations, FALSE), err |-> NoErr]

\* icons.GetDownloadedIconPath: the local icon of a package, if there is one.
HasDownloadedIcon(icons, packageName) == Has(icons, packageName)

LocalIconUrl(packageName, ext) ==
    [scheme |-> "file://assets/icons/", name |-> packageName, ext |-> ext]

\* icons.EnsureIconDownloaded.  download = [ok, mime] is what the network
\* answers: whether http.Get succeeds and the extension sniffed from the body.
EnsureIconDownloaded(iconUrl, packageName, icons, download) ==
    IF HasDownloadedIcon(icons, packageName)
    THEN [ext |-> icons[packageName], icons |-> icons, err |-> NoErr]
    ELSE IF ~download.ok \/ iconUrl = NoIcon
    THEN [ext |-> "", icons |-> icons, err |-> "failed to http get"]
    ELSE LET ext == IF iconUrl.ext # "" THEN iconUrl.ext ELSE download.mime
         IN  IF ext = ""
             THEN [ext |-> "", icons |-> icons, err |-> "failed to get file extension"]
             ELSE [ext |-> ext, icons |-> Put(icons, packageName, ext), err |-> NoErr]

\* ensureIcon once EnsureIconDownloaded has returned got.
IconEnsured(packageWrapper, chartWrapper, got) ==
    IF got.err # NoErr
    THEN [wrapper |-> chartWrapper, icons |-> got.icons, err |-> got.err]
    ELSE IF chartWrapper.Chart.Metadata.Icon # LocalIconUrl(packageWrapper.Name, got.ext)
    THEN [wrapper |-> [Chart |-> SetMeta(chartWrapper.Chart, "Icon",
                                         LocalIconUrl(packageWrapper.Name, got.ext)),
                       Modified |-> TRUE],
          icons |-> got.icons, err |-> NoErr]
    ELSE [wrapper |-> chartWrapper, icons |-> got.icons, err |-> NoErr]

\* ensureIcon: the wrapper and the icon store afterwards, and the error.
ensureIcon(packageWrapper, chartWrapper, icons, download) ==
    IconEnsured(packageWrapper, chartWrapper,
                EnsureIconDownloaded(chartWrapper.Chart.Metadata.Icon,
                                     packageWrapper.Name, icons, download))

\* The end of integrateCharts' loop body, ensureIcon having returned iconed.
IconStep(iconed) ==
    IF iconed.err # NoErr THEN iconed
    ELSE [iconed EXCEPT !.wrapper = [iconed.wrapper EXCEPT !.Modified = TRUE]]

\* integrateCharts' loop body from ensureIcon on, addAnnotations having
\* returned annotated.
AnnotationStep(packageWrapper, newChart, icons, download, annotated) ==
    IF annotated.err # NoErr
    THEN [wrapper |-> [Chart |-> annotated.chart, Modified |-> newChart.Modified],
          icons |-> icons, err |-> annotated.err]
    ELSE IconStep(ensureIcon(packageWrapper,
                             [Chart |-> annotated.chart, Modified |-> newChart.Modified],
                             icons, download))

\* The body of integrateCharts' loop for one new chart.
integrateNewChart(packageWrapper, newChart, icons, download) ==
    AnnotationStep(packageWrapper, newChart, icons, download,
        addAnnotations(packageWrapper,
            OverlayChartMetadata(applyOverlayFiles(packageWrapper.OverlayFiles, newChart.Chart),
                                 packageWrapper.UpstreamYaml.ChartMetadata)))

\* integrateCharts' loop over the new charts from position i on; it stops at
\* the first error.  one is what the loop body made of newCharts[i].
RECURSIVE integrateNewCharts(_, _, _, _, _)
RECURSIVE integrateNext(_, _, _, _, _)
integrateNext(packageWrapper, newCharts, i, download, one) ==
    IF one.err # NoErr
    THEN [newCharts |-> [newCharts EXCEPT ![i] = one.wrapper],
          icons |-> one.icons, err |-> one.err]
    ELSE integrateNewCharts(packageWrapper, [newCharts EXCEPT ![i] = one.wrapper],
                            i + 1, one.icons, download)

integrateNewCharts(packageWrapper, newCharts, i, icons, download) ==
    IF i > Len(newCharts)
    THEN [newCharts |-> newCharts, icons |-> icons, err |-> NoErr]
    ELSE integrateNext(packageWrapper, newCharts, i, download,
                       integrateNewChart(packageWrapper, newCharts[i], icons, download))

\* The first loop of ensureFeaturedAnnotation without its error: the last
\* featured value found wins.
RECURSIVE FeaturedScanLastWins(_, _, _)
FeaturedScanLastWins(existingCharts, i, value) ==
    IF i > Len(existingCharts) THEN [value |-> value, err |-> NoErr]
    ELSE LET annotations == existingCharts[i].Chart.Metadata.Annotations IN
         IF ~Has(annotations, annotationFeatured)
         THEN FeaturedScanLastWins(existingCharts, i + 1, value)
         ELSE FeaturedScanLastWins(existingCharts, i + 1, annotations[annotationFeatured])

\* The first loop of ensureFeaturedAnnotation from position i on, value being
\* the featured value found so far: the final value, or the error.
RECURSIVE FeaturedScan(_, _, _)
FeaturedScan(existingCharts, i, value) ==
    IF i > Len(existingCharts) THEN [value |-> value, err |-> NoErr]
    ELSE LET annotations == existingCharts[i].Chart.Metadata.Annotations IN
         IF ~Has(annotations, annotationFeatured)
         THEN FeaturedScan(existingCharts, i + 1, value)
         ELSE IF value # "" /\ value # annotations[annotationFeatured]
         THEN [value |-> value, err |-> "found two different values for featured annotation"]
         ELSE FeaturedScan(existingCharts, i + 1, annotations[annotationFeatured])

\* ensureFeaturedAnnotation's last loop setting Modified whether or not
\* DeannotateChart removed anything.
UnfeatureMarksAll(existingChart) ==
    [Chart |-> DeannotateChart(existingChart.Chart, annotationFeatured, "").chart,
     Modified |-> TRUE]

\* DeannotateChart applied to a wrapper, as in ensureFeaturedAnnotation's
\* last loop.
Unfeature(existingChart) ==
    LET removed == DeannotateChart(existingChart.Chart, annotationFeatured, "") IN
    IF removed.modified
    THEN [Chart |-> removed.chart, Modified |-> TRUE]
    ELSE existingChart

\* AnnotateChart applied to a wrapper, as ensureFeaturedAnnotation applies it
\* to the last new chart.
Feature(newChart, annotated) ==
    IF annotated.modified
    THEN [Chart |-> annotated.chart, Modified |-> TRUE]
    ELSE newChart

\* ensureFeaturedAnnotation once its first loop has returned scan.  Indexing
\* an empty newCharts panics.
setFeatured(existingCharts, newCharts, scan) ==
    IF scan.err # NoErr
    THEN [existingCharts |-> existingCharts, newCharts |-> newCharts, err |-> scan.err]
    ELSE IF scan.value = ""
    THEN [existingCharts |-> existingCharts, newCharts |-> newCharts, err |-> NoErr]
    ELSE IF Len(newCharts) = 0
    THEN [existingCharts |-> existingCharts, newCharts |-> newCharts, err |-> "panic"]
    ELSE [existingCharts |-> [k \in 1..Len(existingCharts) |-> Unfeature(existingCharts[k])],
          newCharts |-> [newCharts EXCEPT ![Len(newCharts)] =
              Feature(newCharts[Len(newCharts)],
                      AnnotateChart(newCharts[Len(newCharts)].Chart, annotationFeatured,
                                    scan.value, TRUE))],
          err |-> NoErr]

ensureFeaturedAnnotation(existingCharts, newCharts) ==
    setFeatured(existingCharts, newCharts, FeaturedScan(existingCharts, 1, ""))

\* The end of integrateCharts, ensureFeaturedAnnotation having returned
\* featured.
featuredStep(featured, icons) ==
    [existingCharts |-> featured.existingCharts, newCharts |-> featured.newCharts,
     icons |-> icons, err |-> featured.err]

\* integrateCharts after its loop, which returned integrated.
loopStep(existingCharts, integrated) ==
    IF integrated.err # NoErr
    THEN [existingCharts |-> existingCharts, newCharts |-> integrated.newCharts,
          icons |-> integrated.icons, err |-> integrated.err]
    ELSE featuredStep(ensureFeaturedAnnotation(existingCharts, integrated.newCharts),
                      integrated.icons)

\* integrateCharts with its loop ranging over the existing charts as well.
integrateChartsLoopsOverAll(packageWrapper, existingCharts, newCharts, icons, download) ==
    LET every == integrateNewCharts(packageWrapper, existingCharts \o newCharts, 1,
                                    icons, download)
    IN  loopStep(SubSeq(every.newCharts, 1, Len(existingCharts)),
                 [every EXCEPT !.newCharts =
                     SubSeq(every.newCharts, Len(existingCharts) + 1,
                            Len(existingCharts) + Len(newCharts))])

\* integrateCharts: both chart lists and the icon store afterwards, and the
\* returned error.
integrateCharts(packageWrapper, existingCharts, newCharts, icons, download) ==
    loopStep(existingCharts, integrateNewCharts(packageWrapper, newCharts, 1, icons, download))

(***************************************************************************)
(* The repository on disk: assets is the set of chart archives of the      *)
(* vendor's assets directory (an archive is named "<Name>-<Version>.tgz"), *)
(* chartsDir maps a version to the chart unpacked in the package's charts  *)
(* directory, icons maps a package name to the extension of its local      *)
(* icon, index holds the metadata of the entries of index.yaml.            *)
(***************************************************************************)
\* getTgzFilename, as the pair it is built from.
getTgzFilename(helmChart) == <<helmChart.Metadata.Name, helmChart.Metadata.Version>>

\* Pairs <<a, b>> of chart names where b is a followed by "-" and more text.
DashPrefixed == {<<"k10", "k10-extra">>}

\* filepath.Match("<packageName>-*.tgz", "<Name>-<Version>.tgz").
MatchesPackage(packageName, helmChart) ==
    \/ helmChart.Metadata.Name = packageName
    \/ <<packageName, helmChart.Metadata.Name>> \in DashPrefixed

\* getExistingChartTgzFiles: the archives whose file name matches the package.
getExistingChartTgzFiles(assetFiles, packageName) ==
    {c \in assetFiles : MatchesPackage(packageName, c)}

NewestChart(S) ==
    CHOOSE c \in S : \A d \in S :
        Compare(NewVersion(c.Metadata.Version), NewVersion(d.Metadata.Version)) >= 0

RECURSIVE SortChartsDesc(_)
SortChartsDesc(S) ==
    IF S = {} THEN <<>>
    ELSE <<NewChartWrapper(NewestChart(S))>> \o SortChartsDesc(S \ {NewestChart(S)})

\* loadExistingCharts: the package's archives as wrappers, newest first.
loadExistingCharts(assetFiles, packageName) ==
    SortChartsDesc(getExistingChartTgzFiles(assetFiles, packageName))

FileExists(assetFiles, filename) == \E c \in assetFiles : getTgzFilename(c) = filename

\* chartutil.Save refuses a chart whose metadata does not validate.
SaveFails(helmChart) ==
    helmChart.Metadata.Name = "" \/ NewVersion(helmChart.Metadata.Version) = Nil

\* chartutil.Save into the assets directory: the archive of that name is
\* replaced.
Save(assetFiles, helmChart) ==
    {c \in assetFiles : getTgzFilename(c) # getTgzFilename(helmChart)} \cup {helmChart}

ArchiveAt(assetFiles, filename) == CHOOSE c \in assetFiles : getTgzFilename(c) = filename

\* writeCharts' condition for saving a chart without regard to its Modified
\* flag.
needsSaveAlways(chartWrapper, tgzFileExists) == TRUE

\* writeCharts' condition for saving a chart: chartWrapper.Modified ||
\* !tgzFileExists.
needsSave(chartWrapper, tgzFileExists) == chartWrapper.Modified \/ ~tgzFileExists

\* The last loop of writeCharts from position i on.
RECURSIVE writeEach(_, _, _, _)
writeEach(chartWrappers, i, assetFiles, unpacked) ==
    IF i > Len(chartWrappers)
    THEN [assets |-> assetFiles, chartsDir |-> unpacked, err |-> NoErr]
    ELSE LET chartWrapper == chartWrappers[i]
             filename == getTgzFilename(chartWrapper.Chart)
             tgzFileExists == FileExists(assetFiles, filename)
             mustSave == needsSave(chartWrapper, tgzFileExists)
             saved == IF mustSave THEN Save(assetFiles, chartWrapper.Chart) ELSE assetFiles
             version == chartWrapper.Chart.Metadata.Version
             mustUnpack == chartWrapper.Modified \/ ~Has(unpacked, version)
             gunzipped == IF mustUnpack
                          THEN Put(unpacked, version, ArchiveAt(saved, filename))
                          ELSE unpacked
         IN  IF mustSave /\ SaveFails(chartWrapper.Chart)
             THEN [assets |-> assetFiles, chartsDir |-> unpacked, err |-> "failed to write tgz"]
             ELSE writeEach(chartWrappers, i + 1, saved, gunzipped)

\* writeCharts: the charts directory is wiped, archives of the package whose
\* version is not passed in are deleted, then the passed charts are written.
writeCharts(assetFiles, packageName, chartWrappers) ==
    LET existingCharts == loadExistingCharts(assetFiles, packageName)
        versions == {chartWrappers[k].Chart.Metadata.Version : k \in 1..Len(chartWrappers)}
        removed == {existingCharts[k].Chart : k \in
                       {j \in 1..Len(existingCharts) :
                            existingCharts[j].Chart.Metadata.Version \notin versions}}
        kept == {c \in assetFiles : \A r \in removed : getTgzFilename(c) # getTgzFilename(r)}
    IN  writeEach(chartWrappers, 1, kept, EmptyMap)

\* The chart that ApplyUpdates builds from one fetched chart: the version of
\* the selected ChartVersion replaces the chart's own.
FetchedChart(chartVersion, fetchedChart) ==
    NewChartWrapper(SetMeta(fetchedChart, "Version", chartVersion))

\* What ApplyUpdates leaves when it returns an error before writing: the
\* disk as it was, apart from the icon store.
applyFailed(existingCharts, newCharts, existingAfter, newAfter, assetFiles, unpacked, iconStore, err) ==
    [existingBefore |-> existingCharts, newBefore |-> newCharts,
     existingAfter |-> existingAfter, newAfter |-> newAfter,
     integrated |-> FALSE,
     assets |-> assetFiles, chartsDir |-> unpacked, icons |-> iconStore,
     err |-> err]

\* The end of ApplyUpdates, writeCharts having returned written.
applyWritten(existingCharts, newCharts, integrated, written) ==
    [existingBefore |-> existingCharts, newBefore |-> newCharts,
     existingAfter |-> integrated.existingCharts,
     newAfter |-> integrated.newCharts,
     integrated |-> TRUE,
     assets |-> written.assets, chartsDir |-> written.chartsDir,
     icons |-> integrated.icons,
     err |-> written.err]

\* ApplyUpdates after integrateCharts, which returned integrated.
applyIntegrated(packageWrapper, existingCharts, newCharts, assetFiles, unpacked, integrated) ==
    IF integrated.err # NoErr
    THEN applyFailed(existingCharts, newCharts, integrated.existingCharts,
                     integrated.newCharts, assetFiles, unpacked, integrated.icons,
                     integrated.err)
    ELSE applyWritten(existingCharts, newCharts, integrated,
                      writeCharts(assetFiles, packageWrapper.Name,
                                  integrated.existingCharts \o integrated.newCharts))

\* ApplyUpdates after loadExistingCharts, which returned existingCharts, and
\* the fetch loop, which built newCharts unless a fetch failed.
applyLoaded(packageWrapper, fetchFailed, existingCharts, newCharts, assetFiles, unpacked, iconStore, download) ==
    IF fetchFailed
    THEN applyFailed(existingCharts, <<>>, existingCharts, <<>>, assetFiles, unpacked,
                     iconStore, "failed to fetch chart")
    ELSE applyIntegrated(packageWrapper, existingCharts, newCharts, assetFiles, unpacked,
                         integrateCharts(packageWrapper, existingCharts, newCharts,
                                         iconStore, download))

\* ApplyUpdates.  fetched[k] is what the fetcher returns for FetchVersions[k]:
\* [ok, chart].  The result carries the lists handed to integrateCharts, the
\* lists it left, the disk afterwards and the returned error.
ApplyUpdatesResult(packageWrapper, fetchVersions, fetched, assetFiles, unpacked, iconStore, download) ==
    applyLoaded(packageWrapper,
                \E k \in 1..Len(fetchVersions) : ~fetched[k].ok,
                loadExistingCharts(assetFiles, packageWrapper.Name),
                [k \in 1..Len(fetchVersions) |->
                    FetchedChart(fetchVersions[k], fetched[k].chart)],
                assetFiles, unpacked, iconStore, download)

\* repo.IndexDirectory as writeIndex uses it: the metadata of every archive,
\* the icon replaced by the package's local icon when there is one.
IndexEntry(helmChart, iconStore) ==
    IF Has(iconStore, helmChart.Metadata.Name)
    THEN [helmChart.Metadata EXCEPT
             !.Icon = LocalIconUrl(helmChart.Metadata.Name, iconStore[helmChart.Metadata.Name])]
    ELSE helmChart.Metadata

writeIndex(assetFiles, iconStore) == {IndexEntry(c, iconStore) : c \in assetFiles}

\* The versions index.yaml lists under a chart name.
IndexVersions(indexEntries, chartName) ==
    {m.Version : m \in {e \in indexEntries : e.Name = chartName}}

(***************************************************************************)
(* Release Validator (pkg/validate/modification.go).                       *)
(*                                                                         *)
(* A directory tree is a function from relative paths to nodes, defined    *)
(* on the paths that exist.  A path is the sequence of its components,     *)
(* Root (the empty sequence) being the tree's root directory.  A node is   *)
(* a directory, a directory that can be neither read nor searched, or a    *)
(* file with its content.  A content is [bytes] for plain bytes, [chart]   *)
(* for a chart archive and [yaml] for an exported Chart.yaml.              *)
(***************************************************************************)
Root == <<>>

Dir == [kind |-> "dir"]

LockedDir == [kind |-> "locked"]

File(content) == [kind |-> "file", content |-> content]

Raw(bytes) == [bytes |-> bytes]

Tgz(helmChart) == [chart |-> helmChart]

\* A tree whose root does not exist.
NoTree == <<>>

Exists(tree, path) == path \in DOMAIN tree

Parent(path) == SubSeq(path, 1, Len(path) - 1)

Ancestors(path) == {SubSeq(path, 1, n) : n \in 0..(Len(path) - 1)}

\* The components of path that path resolution cannot pass: missing, a file,
\* or a directory without search permission.
Blocked(tree, path) ==
    {a \in Ancestors(path) : ~(Exists(tree, a) /\ tree[a].kind = "dir")}

FirstBlocked(tree, path) ==
    CHOOSE a \in Blocked(tree, path) : \A b \in Blocked(tree, path) : Len(a) <= Len(b)

\* os.Stat of a path below a tree's root: "ok" or the errno.
Stat(tree, path) ==
    IF Blocked(tree, path) = {}
    THEN (IF Exists(tree, path) THEN "ok" ELSE "ENOENT")
    ELSE IF ~Exists(tree, FirstBlocked(tree, path)) THEN "ENOENT"
    ELSE IF tree[FirstBlocked(tree, path)].kind = "file" THEN "ENOTDIR"
    ELSE "EACCES"

\* os.IsNotExist.
IsNotExist(stat) == stat = "ENOENT"

\* What os.Open and a read of the whole file give: the content, or Unreadable
\* for a path that is missing, a directory or out of reach.
Unreadable == [unreadable |-> TRUE]

ReadFile(tree, path) ==
    IF Stat(tree, path) = "ok" /\ tree[path].kind = "file"
    THEN tree[path].content
    ELSE Unreadable

\* checksumFile: the SHA-256 of a file stands for its content; on an error
\* the function returns "", which is the hash of no file.
EmptyChecksum == [sum |-> "", of |-> Unreadable]

checksumFile(tree, path) ==
    IF ReadFile(tree, path) = Unreadable
    THEN EmptyChecksum
    ELSE [sum |-> "sha256", of |-> ReadFile(tree, path)]

\* strings.HasSuffix(upstreamFilePath, ".tgz") on the file names of the model.
TgzNames == {"k10-1.0.0.tgz"}

IsTgz(path) == Len(path) > 0 /\ path[Len(path)] \in TgzNames

\* The paths filepath.Walk hands to its callback without an error: every
\* existing path whose ancestors are readable directories that the callback
\* did not skip.
Visited(tree, skipDirs) ==
    {p \in DOMAIN tree :
        \A a \in Ancestors(p) : tree[a].kind = "dir" /\ a \notin skipDirs}

\* filepath.Walk returns an error: it reached a directory it cannot read
\* (one the callback skips is never read).
WalkFails(tree, skipDirs) ==
    \E p \in Visited(tree, skipDirs) : tree[p].kind = "locked" /\ p \notin skipDirs

VisitedFiles(tree, skipDirs) == {p \in Visited(tree, skipDirs) : tree[p].kind = "file"}

DirectoryComparison(unchanged, modified, added, removed, err) ==
    [Unchanged |-> unchanged, Modified |-> modified, Added |-> added, Removed |-> removed,
     err |-> err]

EmptyComparison(err) == DirectoryComparison({}, {}, {}, {}, err)

\* DirectoryComparison.Match.
Match(directoryComparison) ==
    Cardinality(directoryComparison.Modified) + Cardinality(directoryComparison.Added)
        + Cardinality(directoryComparison.Removed) = 0

\* DirectoryComparison.Merge.
Merge(directoryComparison, newComparison) ==
    [directoryComparison EXCEPT !.Unchanged = @ \cup newComparison.Unchanged,
                                !.Modified = @ \cup newComparison.Modified,
                                !.Added = @ \cup newComparison.Added,
                                !.Removed = @ \cup newComparison.Removed]

\* The paths of the files of a chart, as chartutil.Save and Gunzip lay them out.
SplitPath(name) ==
    IF name = "templates/app.yaml" THEN <<"templates", "app.yaml">> ELSE <<name>>

ChartYaml == <<"Chart.yaml">>

\* conform.ExportChartDirectory: the directory tree of a chart, or an error
\* when chartutil.Save refuses the chart.
ExportChartDirectory(helmChart) ==
    IF SaveFails(helmChart)
    THEN [dir |-> NoTree, err |-> "failed to export chart directory"]
    ELSE LET files == {SplitPath(f) : f \in DOMAIN helmChart.Files}
             dirs == UNION {Ancestors(p) : p \in files \cup {ChartYaml}}
         IN  [dir |-> [p \in dirs \cup files \cup {ChartYaml} |->
                          IF p \in dirs THEN Dir
                          ELSE IF p = ChartYaml THEN File([yaml |-> helmChart.Metadata])
                          ELSE File(Raw(helmChart.Files[
                                   CHOOSE f \in DOMAIN helmChart.Files : SplitPath(f) = p]))],
              err |-> NoErr]

\* strings.HasPrefix(annotation, "catalog.cattle.io") on the annotation keys
\* of the model; the last key is outside the catalog.cattle.io/ namespace and
\* has the prefix all the same.
annotationLookalike == "catalog.cattle.io.example.com/owner"

annotationForeign == "example.com/owner"

HasRancherPrefix(annotation) ==
    annotation \in {annotationAutoInstall, annotationCertified, annotationDisplayName,
                    annotationExperimental, annotationFeatured, annotationHidden,
                    annotationKubeVersion, annotationNamespace, annotationReleaseName,
                    annotationLookalike}

\* The chart whose annotations prepareTgzForComparison leaves as they are.
keepAnnotations(helmChart) == SetMeta(helmChart, "Deprecated", FALSE)

\* The chart that prepareTgzForComparison exports: no annotation with the
\* prefix, deprecated false.
normalizeChart(helmChart) ==
    SetMeta(SetMeta(helmChart, "Annotations",
                    [k \in {a \in DOMAIN helmChart.Metadata.Annotations : ~HasRancherPrefix(a)} |->
                        helmChart.Metadata.Annotations[k]]),
            "Deprecated", FALSE)

\* prepareTgzForComparison: the exported directory, or the error.
prepareTgzForComparison(content) ==
    IF content = Unreadable
    THEN [dir |-> NoTree, err |-> "failed to open file"]
    ELSE IF "chart" \notin DOMAIN content
    THEN [dir |-> NoTree, err |-> "failed to load archive"]
    ELSE ExportChartDirectory(normalizeChart(content.chart))

RECURSIVE compareDirectories(_, _, _)

\* matchHelmCharts once both archives are prepared.
matchPrepared(upstreamChartDirectory, updateChartDirectory) ==
    IF upstreamChartDirectory.err # NoErr
    THEN [match |-> FALSE, err |-> upstreamChartDirectory.err]
    ELSE IF updateChartDirectory.err # NoErr
    THEN [match |-> FALSE, err |-> updateChartDirectory.err]
    ELSE [match |-> Match(compareDirectories(upstreamChartDirectory.dir,
                                             updateChartDirectory.dir, {})),
          err |-> NoErr]

\* matchHelmCharts on what the two paths hold.
matchHelmCharts(upstreamContent, updateContent) ==
    matchPrepared(prepareTgzForComparison(upstreamContent),
                  prepareTgzForComparison(updateContent))

\* The temporary directory that prepareTgzForComparison created and did not
\* hand to its caller: os.MkdirTemp succeeded and the export into it failed.
prepareLeavesDirectory(content) ==
    /\ content # Unreadable
    /\ "chart" \in DOMAIN content
    /\ ExportChartDirectory(normalizeChart(content.chart)).err # NoErr

\* The temporary directories still there when matchHelmCharts has returned:
\* it removes the directories that prepareTgzForComparison returned, and
\* prepares the second archive only when the first one was prepared.
chartDirectoriesLeft(upstreamContent, updateContent, relativePath) ==
    {<<"upstream", relativePath>> : x \in {c \in {upstreamContent} : prepareLeavesDirectory(c)}}
        \cup {<<"update", relativePath>> :
                  x \in {c \in {updateContent} :
                             /\ prepareTgzForComparison(upstreamContent).err = NoErr
                             /\ prepareLeavesDirectory(c)}}

\* findRemovalAndModification for one file of the reference tree: the set
\* the path is appended to.
findRemovalAndModification(upstream, update, relativePath) ==
    IF IsNotExist(Stat(update, relativePath)) THEN "Removed"
    ELSE IF checksumFile(upstream, relativePath) # checksumFile(update, relativePath)
            /\ IsTgz(relativePath)
    THEN (IF matchHelmCharts(ReadFile(upstream, relativePath),
                             ReadFile(update, relativePath)).match
          THEN "Unchanged" ELSE "Modified")
    ELSE IF checksumFile(upstream, relativePath) # checksumFile(update, relativePath)
    THEN "Modified"
    ELSE "Unchanged"

\* findAddition for one file of the working copy: whether it is appended to
\* Added.  checkedSet holds every path the first walk visited, directories
\* included.
findAddition(checkedSet, relativePath) == relativePath \notin checkedSet

\* compareDirectories: the comparison and the error.
compareDirectories(upstream, update, skipDirs) ==
    IF ~Exists(upstream, Root) \/ ~Exists(update, Root)
    THEN EmptyComparison("does not exist")
    ELSE IF WalkFails(upstream, skipDirs)
    THEN EmptyComparison("failed to search for removed or modified files")
    ELSE IF WalkFails(update, skipDirs)
    THEN EmptyComparison("failed to search for added files")
    ELSE DirectoryComparison(
            {p \in VisitedFiles(upstream, skipDirs) :
                findRemovalAndModification(upstream, update, p) = "Unchanged"},
            {p \in VisitedFiles(upstream, skipDirs) :
                findRemovalAndModification(upstream, update, p) = "Modified"},
            {p \in VisitedFiles(update, skipDirs) :
                findAddition(Visited(upstream, skipDirs), p)},
            {p \in VisitedFiles(upstream, skipDirs) :
                findRemovalAndModification(upstream, update, p) = "Removed"},
            NoErr)

IconsDir == <<"icons">>

\* The directory os.MkdirTemp("", "gitRepo") creates for the clone.
cloneDir == <<"gitRepo">>

\* The temporary directories left by the comparisons of archives that
\* compareDirectories makes on the two assets directories.
tempDirsLeft(upstream, update) ==
    IF ~Exists(update, Root) \/ ~Exists(upstream, Root)
    THEN {}
    ELSE UNION {chartDirectoriesLeft(ReadFile(upstream, p), ReadFile(update, p), p) :
                   p \in {q \in VisitedFiles(upstream, {IconsDir}) :
                             /\ ~IsNotExist(Stat(update, q))
                             /\ IsTgz(q)
                             /\ checksumFile(upstream, q) # checksumFile(update, q)}}

\* preventReleasedChartModifications after its directory checks: the error
\* of compareDirectories is logged, its comparison merged, and every
\* Modified path becomes an error.
reportModified(newComparison) ==
    [compared |-> newComparison,
     errors |-> Merge(EmptyComparison(NoErr), newComparison).Modified]

\* preventReleasedChartModifications on the assets directories of the clone
\* and of the working copy.
preventReleasedChartModifications(upstream, update) ==
    IF ~Exists(update, Root) \/ ~Exists(upstream, Root)
    THEN [compared |-> EmptyComparison(NoErr), errors |-> {}]
    ELSE reportModified(compareDirectories(upstream, update, {IconsDir}))

(***************************************************************************)
(* Inputs of an update run.                                                *)
(***************************************************************************)
\* Bounds of the model.
MaxUpstream == 3

MaxCharts == 3

PackageName == "k10"

RemoteIcon == [scheme |-> "https://", name |-> "example.com/logo", ext |-> ".png"]

NoOverlay ==
    [Name |-> "", Home |-> "", Sources |-> <<>>, Version |-> EmptyStr, Description |-> "",
     Keywords |-> <<>>, Maintainers |-> <<>>, Icon |-> NoIcon, APIVersion |-> "",
     Condition |-> "", Tags |-> "", AppVersion |-> "", Deprecated |-> FALSE,
     Annotations |-> EmptyMap, KubeVersion |-> "", Dependencies |-> <<>>, Type |-> ""]

\* A chart as an upstream serves it.
UpstreamChart(annotations, kubeVersion) ==
    [Metadata |-> [NoOverlay EXCEPT !.Name = PackageName, !.Icon = RemoteIcon,
                                    !.APIVersion = "v2", !.Description = "upstream",
                                    !.Annotations = annotations, !.KubeVersion = kubeVersion],
     Files |-> [f \in {"values.yaml", "templates/app.yaml"} |-> "upstream"]]

PlainChart == UpstreamChart(EmptyMap, "")

\* upstream.yaml after Parse (setDefaults has replaced an empty Fetch and an
\* empty ReleaseName) and the fields ListPackageWrappers derives from it.
PackageWrapper(fetch, tracked, packageVersion, hidden, overlay, overlayFiles) ==
    [Name |-> PackageName,
     DisplayName |-> PackageName,
     OverlayFiles |-> overlayFiles,
     UpstreamYaml |->
        [AutoInstall |-> "", Experimental |-> FALSE, Hidden |-> hidden,
         ReleaseName |-> PackageName, Namespace |-> "",
         ChartMetadata |-> overlay, PackageVersion |-> packageVersion,
         Fetch |-> fetch, TrackVersions |-> tracked]]

(***************************************************************************)
(* upstream.yaml as it is on disk, and what Parse and ListPackageWrappers  *)
(* make of it (pkg/upstreamyaml, pkg/pkg).                                 *)
(***************************************************************************)
\* The UpstreamYaml struct after yaml.Unmarshal: a field the file does not
\* set has its zero value.
UpstreamYaml(helmChart, helmRepo, gitRepo, fetch, deprecated) ==
    [ArtifactHubPackage |-> "", ArtifactHubRepo |-> "", AutoInstall |-> "",
     ChartMetadata |-> NoOverlay, Deprecated |-> deprecated, DisplayName |-> "",
     Experimental |-> FALSE, Fetch |-> fetch, GitBranch |-> "", GitHubRelease |-> FALSE,
     GitRepo |-> gitRepo, GitSubdirectory |-> "", HelmChart |-> helmChart,
     HelmRepo |-> helmRepo, Hidden |-> FALSE, Namespace |-> "", PackageVersion |-> 0,
     TrackVersions |-> <<>>, ReleaseName |-> "", Vendor |-> ""]

setDefaults(upstreamYaml) ==
    LET fetched == IF upstreamYaml.Fetch = ""
                   THEN [upstreamYaml EXCEPT !.Fetch = "latest"]
                   ELSE upstreamYaml
    IN  IF fetched.ReleaseName = ""
        THEN [fetched EXCEPT !.ReleaseName = fetched.HelmChart]
        ELSE fetched

\* validate: the error, or NoErr.
validate(upstreamYaml) ==
    IF upstreamYaml.Fetch # "latest" /\ upstreamYaml.HelmChart = ""
    THEN "Fetch is latest but HelmChart is not set"
    ELSE IF upstreamYaml.Fetch # "latest" /\ upstreamYaml.HelmRepo = ""
    THEN "Fetch is latest but HelmRepo is not set"
    ELSE IF Len(upstreamYaml.TrackVersions) # 0 /\ upstreamYaml.HelmChart = ""
    THEN "TrackVersions is set but HelmChart is not set"
    ELSE IF Len(upstreamYaml.TrackVersions) # 0 /\ upstreamYaml.HelmRepo = ""
    THEN "TrackVersions is set but HelmRepo is not set"
    ELSE IF upstreamYaml.ArtifactHubPackage # "" /\ upstreamYaml.ArtifactHubRepo = ""
    THEN "ArtifactHubPackage is set but ArtifactHubRepo is not set"
    ELSE IF upstreamYaml.ArtifactHubRepo # "" /\ upstreamYaml.ArtifactHubPackage = ""
    THEN "ArtifactHubRepo is set but ArtifactHubPackage is not set"
    ELSE IF upstreamYaml.GitBranch # "" /\ upstreamYaml.GitRepo = ""
    THEN "GitBranch is set but GitRepo is not set"
    ELSE IF upstreamYaml.GitHubRelease /\ upstreamYaml.GitRepo = ""
    THEN "GitHubRelease is set but GitRepo is not set"
    ELSE IF upstreamYaml.GitSubdirectory # "" /\ upstreamYaml.GitRepo = ""
    THEN "GitSubdirectory is set but GitRepo is not set"
    ELSE IF upstreamYaml.HelmChart # "" /\ upstreamYaml.HelmRepo = ""
    THEN "HelmChart is set but HelmRepo is not set"
    ELSE IF upstreamYaml.HelmRepo # "" /\ upstreamYaml.HelmChart = ""
    THEN "HelmRepo is set but HelmChart is not set"
    ELSE IF ~(\/ upstreamYaml.ArtifactHubPackage # "" /\ upstreamYaml.ArtifactHubRepo # ""
              \/ upstreamYaml.GitRepo # ""
              \/ upstreamYaml.HelmRepo # "" /\ upstreamYaml.HelmChart # "")
    THEN "must define upstream"
    ELSE NoErr

\* Parse on the struct yaml.Unmarshal has filled.
Parse(contents) ==
    IF validate(setDefaults(contents)) # NoErr
    THEN [upstreamYaml |-> contents, err |-> "invalid upstream.yaml"]
    ELSE [upstreamYaml |-> setDefaults(contents), err |-> NoErr]

\* The PackageWrapper that ListPackageWrappers builds for the directory
\* packages/<vendor>/<name> once its upstream.yaml is parsed.
ListedPackage(name, upstreamYaml) ==
    [Name |-> name,
     DisplayName |-> IF upstreamYaml.DisplayName # "" THEN upstreamYaml.DisplayName ELSE name,
     OverlayFiles |-> EmptyMap,
     UpstreamYaml |-> upstreamYaml]

\* ListPackageWrappers on the package directories matches, each [Name,
\* contents]: the first upstream.yaml that does not parse makes the whole
\* call return an error.
ListPackageWrappers(matches) ==
    IF \E k \in 1..Len(matches) : Parse(matches[k].contents).err # NoErr
    THEN [packageList |-> <<>>, err |-> "failed to parse upstream.yaml"]
    ELSE [packageList |-> [k \in 1..Len(matches) |->
                              ListedPackage(matches[k].Name,
                                            Parse(matches[k].contents).upstreamYaml)],
          err |-> NoErr]

FetchModes == {"latest", "Latest", "newer", "all"}

Stream(major, minor) == VerStr("short", major, minor, 0, NoPre)

TrackedChoices == {<<>>, <<Stream(1, 1), Stream(1, 0)>>, <<Stream(1, 0)>>}

\* TrackVersions with an entry that is no version.
UnparsableTracked == {<<Stream(1, 0), BadStr>>, <<BadStr, Stream(1, 0)>>}

\* The version strings an upstream may list.  1.0.100 is a genuine upstream
\* patch number above the package-version multiplier, BadStr does not parse.
UpstreamUniverse ==
    {Plain(1, 0, 0), Plain(1, 0, 1), Plain(1, 0, 100),
     Plain(1, 1, 0), VerStr("v", 1, 1, 1, NoPre), VerStr("plain", 1, 1, 2, "rc1"), BadStr}

Parsable(S) == {v \in S : NewVersion(v) # Nil}

\* SourceMetadata.Versions as fetchUpstreamHelmrepo returns it: sorted by
\* SortEntries, a string that does not parse ahead of the others.  The list
\* is empty when the upstream index names the chart without any version.
UpstreamLists ==
    {(IF BadStr \in S THEN <<BadStr>> ELSE <<>>) \o SortEntries(Parsable(S)) :
        S \in {T \in SUBSET UpstreamUniverse : Cardinality(T) <= MaxUpstream}}

(***************************************************************************)
(* State.                                                                  *)
(***************************************************************************)
VARIABLES
    assets,            \* archives in the vendor's assets directory
    chartsDir,         \* the package's charts directory: version -> chart
    icons,             \* local icon storage: package name -> extension
    index,             \* index.yaml: the metadata of its entries
    phase,             \* position of generateChanges: idle, populated, applied
    packageWrapper,    \* the package of the run in progress
    upstreamVersions,  \* SourceMetadata.Versions of the run in progress
    calls,             \* the collectNonStoredVersions calls of the run
    FetchVersions,     \* packageWrapper.FetchVersions
    populateErr,       \* whether Populate returned an error
    applied,           \* what ApplyUpdates did in the run in progress
    conv,              \* the last function called on its own: arguments and result
    batch,             \* generateChanges over a list of packages: its position and lists
    reference,         \* the assets directory of the validator's clone
    workingCopy,       \* the assets directory of the working copy
    validation         \* what preventReleasedChartModifications returned

runVars == <<phase, packageWrapper, upstreamVersions, calls, FetchVersions, populateErr, applied>>

diskVars == <<assets, chartsDir, icons, index>>

validatorVars == <<reference, workingCopy, validation>>

vars == <<assets, chartsDir, icons, index, phase, packageWrapper, upstreamVersions, calls,
          FetchVersions, populateErr, applied, conv, batch, reference, workingCopy, validation>>

NoPackage == PackageWrapper("latest", <<>>, 0, FALSE, NoOverlay, EmptyMap)

NotApplied ==
    [existingBefore |-> <<>>, newBefore |-> <<>>, existingAfter |-> <<>>, newAfter |-> <<>>,
     integrated |-> FALSE, assets |-> {}, chartsDir |-> EmptyMap, icons |-> EmptyMap,
     err |-> NoErr]

NoConv == [step |-> "none", upstream |-> EmptyStr, packageVersion |-> 0,
           generated |-> EmptyStr, err |-> FALSE, stripped |-> EmptyStr]

RunIdle ==
    /\ phase = "idle"
    /\ packageWrapper = NoPackage
    /\ upstreamVersions = <<>>
    /\ calls = <<>>
    /\ FetchVersions = <<>>
    /\ populateErr = FALSE
    /\ applied = NotApplied

DiskEmpty ==
    /\ assets = {}
    /\ chartsDir = EmptyMap
    /\ icons = EmptyMap
    /\ index = {}

\* generateChanges has not been started.
NoBatch ==
    [step |-> "idle", matches |-> <<>>, packageWrappers |-> <<>>, populations |-> <<>>,
     packageList |-> <<>>, results |-> <<>>, skippedList |-> <<>>]

NotValidated ==
    [step |-> "none", compared |-> EmptyComparison(NoErr), errors |-> {}, tempDirs |-> {}]

ValidatorIdle ==
    /\ reference = NoTree
    /\ workingCopy = NoTree
    /\ validation = NotValidated

Init ==
    /\ DiskEmpty
    /\ RunIdle
    /\ conv = NoConv
    /\ batch = NoBatch
    /\ ValidatorIdle

(***************************************************************************)
(* Actions of an update run (generateChanges for one package).             *)
(***************************************************************************)
\* PackageWrapper.Populate once fetcher.FetchUpstream has answered: answer
\* is [ok, versions].  Versions[0] is read before the list is filtered, which
\* panics on an empty list.
PopulateResult(pw, answer, indexEntries) ==
    IF ~answer.ok
    THEN [panic |-> FALSE, err |-> TRUE, updated |-> FALSE, calls |-> <<>>, versions |-> <<>>]
    ELSE IF Len(answer.versions) = 0
    THEN [panic |-> TRUE, err |-> FALSE, updated |-> FALSE, calls |-> <<>>, versions |-> <<>>]
    ELSE LET filtered == filterVersions(answer.versions, IndexVersions(indexEntries, pw.Name),
                                        pw.UpstreamYaml.Fetch, pw.UpstreamYaml.TrackVersions)
         IN  [panic |-> filtered.panic,
              err |-> filtered.err,
              updated |-> ~filtered.panic /\ ~filtered.err /\ Len(filtered.versions) > 0,
              calls |-> filtered.calls,
              versions |-> IF filtered.err THEN <<>> ELSE filtered.versions]

\* PackageWrapper.Populate: the upstream list is fetched and filtered
\* against the package's entries of index.yaml.  A panic ends the process
\* (phase crashed).
Populate(pw, versions) ==
    /\ phase = "idle"
    /\ LET populated == PopulateResult(pw, [ok |-> TRUE, versions |-> versions], index)
       IN  /\ calls' = populated.calls
           /\ FetchVersions' = populated.versions
           /\ populateErr' = populated.err
           /\ phase' = IF populated.panic THEN "crashed" ELSE "populated"
    /\ packageWrapper' = pw
    /\ upstreamVersions' = versions
    /\ UNCHANGED <<applied, diskVars, conv, batch, validatorVars>>

\* The process that panicked is gone; the tool can be started again.
Restart ==
    /\ phase = "crashed"
    /\ phase' = "idle"
    /\ packageWrapper' = NoPackage
    /\ upstreamVersions' = <<>>
    /\ calls' = <<>>
    /\ FetchVersions' = <<>>
    /\ populateErr' = FALSE
    /\ applied' = NotApplied
    /\ UNCHANGED <<diskVars, conv, batch, validatorVars>>

\* generateChanges returns without applying anything: Populate failed or the
\* package is up to date (or the model's bound on stored charts is reached).
SkipPackage ==
    /\ phase = "populated"
    /\ \/ populateErr
       \/ Len(FetchVersions) = 0
       \/ Cardinality(assets) + Len(FetchVersions) > MaxCharts
    /\ phase' = "idle"
    /\ packageWrapper' = NoPackage
    /\ upstreamVersions' = <<>>
    /\ calls' = <<>>
    /\ FetchVersions' = <<>>
    /\ populateErr' = FALSE
    /\ applied' = NotApplied
    /\ UNCHANGED <<diskVars, conv, batch, validatorVars>>

\* ApplyUpdates for the populated package.
ApplyUpdates(fetched, download) ==
    /\ phase = "populated"
    /\ ~populateErr
    /\ Len(FetchVersions) > 0
    /\ Cardinality(assets) + Len(FetchVersions) <= MaxCharts
    /\ applied' = ApplyUpdatesResult(packageWrapper, FetchVersions, fetched,
                                     assets, chartsDir, icons, download)
    /\ assets' = applied'.assets
    /\ chartsDir' = applied'.chartsDir
    /\ icons' = applied'.icons
    /\ phase' = "applied"
    /\ UNCHANGED <<index, packageWrapper, upstreamVersions, calls, FetchVersions, populateErr, conv, batch, validatorVars>>

\* The tail of generateChanges: with the only package skipped the run ends
\* fatally, otherwise index.yaml is rewritten from the assets directory.
FinishRun ==
    /\ phase = "applied"
    /\ index' = IF applied.err # NoErr THEN index ELSE writeIndex(assets, icons)
    /\ phase' = "idle"
    /\ packageWrapper' = NoPackage
    /\ upstreamVersions' = <<>>
    /\ calls' = <<>>
    /\ FetchVersions' = <<>>
    /\ populateErr' = FALSE
    /\ applied' = NotApplied
    /\ UNCHANGED <<assets, chartsDir, icons, conv, batch, validatorVars>>

\* annotate(vendor, chartName, featured, value, remove = false, onlyLatest =
\* true) as addFeaturedChart calls it, followed by its writeIndex.
addFeaturedChart(value) ==
    /\ phase = "idle"
    /\ batch.step = "idle"
    /\ \A e \in index : ~(Has(e.Annotations, annotationFeatured)
                          /\ e.Annotations[annotationFeatured] = value)
    /\ LET existingCharts == loadExistingCharts(assets, PackageName)
       IN  /\ Len(existingCharts) > 0
           /\ LET annotated == AnnotateChart(existingCharts[1].Chart, annotationFeatured, value, TRUE)
                  updated == [existingCharts EXCEPT
                                 ![1] = [Chart |-> annotated.chart, Modified |-> annotated.modified]]
                  written == writeCharts(assets, PackageName, updated)
              IN  /\ assets' = written.assets
                  /\ chartsDir' = written.chartsDir
                  /\ index' = IF written.err # NoErr THEN index
                              ELSE writeIndex(written.assets, icons)
    /\ UNCHANGED <<icons, runVars, conv, batch, validatorVars>>

(***************************************************************************)
(* generateChanges over the package directories of the repository.  batch  *)
(* holds its position (step), the directories found (matches), the         *)
(* packages listed (packageWrappers), what Populate did for each of them   *)
(* so far (populations), the packages to apply (packageList) with what     *)
(* ApplyUpdates did for each of them so far (results), and skippedList.    *)
(***************************************************************************)
\* The start of generateChanges: an error of ListPackageWrappers is fatal.
generateChangesList(matches) ==
    /\ batch.step = "idle"
    /\ phase = "idle"
    /\ LET listed == ListPackageWrappers(matches)
       IN  batch' = [NoBatch EXCEPT
                        !.matches = matches,
                        !.packageWrappers = listed.packageList,
                        !.step = IF listed.err # NoErr THEN "fatal"
                                 ELSE IF Len(listed.packageList) = 0 THEN "returned"
                                 ELSE "populating"]
    /\ UNCHANGED <<diskVars, runVars, conv, validatorVars>>

\* What the first loop of generateChanges does with one package, answer
\* being what fetcher.FetchUpstream returns for it.
populateOutcome(pw, populated) ==
    IF pw.UpstreamYaml.Deprecated THEN "deprecated"
    ELSE IF populated.panic THEN "panic"
    ELSE IF populated.err THEN "error"
    ELSE IF populated.updated THEN "updated"
    ELSE "up-to-date"

\* One round of the first loop of generateChanges.  After the last package
\* an empty packageList makes generateChanges return.
generateChangesPopulate(answer) ==
    /\ batch.step = "populating"
    /\ LET pw == batch.packageWrappers[Len(batch.populations) + 1]
           populated == PopulateResult(pw, answer, index)
           outcome == populateOutcome(pw, populated)
           packageList == IF outcome = "updated"
                          THEN Append(batch.packageList,
                                      [packageWrapper |-> pw,
                                       FetchVersions |-> populated.versions])
                          ELSE batch.packageList
           last == Len(batch.populations) + 1 = Len(batch.packageWrappers)
       IN  batch' = [batch EXCEPT
                        !.populations = Append(@, [Name |-> pw.Name, answer |-> answer,
                                                   outcome |-> outcome]),
                        !.packageList = packageList,
                        !.step = IF outcome = "panic" THEN "panicked"
                                 ELSE IF ~last THEN "populating"
                                 ELSE IF Len(packageList) = 0 THEN "returned"
                                 ELSE "applying"]
    /\ UNCHANGED <<diskVars, runVars, conv, validatorVars>>

\* The charts the fetcher returns for a package: they carry its name.
NamedFor(pw, fetched) ==
    [k \in DOMAIN fetched |->
        [fetched[k] EXCEPT !.chart = SetMeta(@, "Name", pw.Name)]]

\* One round of the second loop of generateChanges.  After the last package
\* the run is fatal when every package was skipped, and index.yaml is
\* written otherwise.
generateChangesApply(fetched, download) ==
    /\ batch.step = "applying"
    /\ LET entry == batch.packageList[Len(batch.results) + 1]
           pw == entry.packageWrapper
           result == ApplyUpdatesResult(pw, entry.FetchVersions, NamedFor(pw, fetched),
                                        assets,
                                        IF pw.Name = PackageName THEN chartsDir ELSE EmptyMap,
                                        icons, download)
           skippedList == IF result.err # NoErr
                          THEN Append(batch.skippedList, pw.Name)
                          ELSE batch.skippedList
           last == Len(batch.results) + 1 = Len(batch.packageList)
           fatal == last /\ Len(skippedList) >= Len(batch.packageList)
       IN  /\ assets' = result.assets
           /\ chartsDir' = IF pw.Name = PackageName THEN result.chartsDir ELSE chartsDir
           /\ icons' = result.icons
           /\ index' = IF last /\ ~fatal THEN writeIndex(result.assets, result.icons)
                       ELSE index
           /\ batch' = [batch EXCEPT
                           !.results = Append(@, [Name |-> pw.Name, assetsBefore |-> assets,
                                                  applied |-> result]),
                           !.skippedList = skippedList,
                           !.step = IF ~last THEN "applying"
                                    ELSE IF fatal THEN "fatal"
                                    ELSE "done"]
    /\ UNCHANGED <<runVars, conv, validatorVars>>

\* The process has ended (generateChanges returned, logrus.Fatalf exited, or
\* a panic); the tool can be started again.
generateChangesExit ==
    /\ batch.step \in {"returned", "fatal", "done", "panicked"}
    /\ batch' = NoBatch
    /\ UNCHANGED <<diskVars, runVars, conv, validatorVars>>

(***************************************************************************)
(* Package-version conversions on their own.                               *)
(***************************************************************************)
MaxPackageVersion == 100

ConvVersions ==
    {Plain(1, 4, n) : n \in {0, 1, 2, 99, 100}}
        \cup {VerStr("v", 2, 0, 3, NoPre), VerStr("plain", 1, 4, 2, "rc1")}

CallGeneratePackageVersion(v, p) ==
    /\ LET generated == GeneratePackageVersion(v, p)
       IN  conv' = [step |-> "generated", upstream |-> v, packageVersion |-> p,
                    generated |-> generated.version, err |-> generated.err,
                    stripped |-> EmptyStr]
    /\ UNCHANGED <<diskVars, runVars, batch, validatorVars>>

CallStripPackageVersion ==
    /\ conv.step = "generated"
    /\ ~conv.err
    /\ conv' = [conv EXCEPT !.step = "stripped",
                            !.stripped = StripPackageVersion(conv.generated)]
    /\ UNCHANGED <<diskVars, runVars, batch, validatorVars>>

NextVersion ==
    \/ \E v \in ConvVersions, p \in 0..MaxPackageVersion : CallGeneratePackageVersion(v, p)
    \/ CallStripPackageVersion

SpecVersion == Init /\ [][NextVersion]_vars

\* C3: for every upstream version and every package version in 0..99,
\* stripping the version that the encoding produced gives back the patch
\* number of the upstream version.
C3_RoundTripRecoversPatch ==
    (conv.step = "stripped" /\ conv.packageVersion \in 0..99) =>
        /\ NewVersion(conv.stripped) # Nil
        /\ NewVersion(conv.stripped).patch = NewVersion(conv.upstream).patch

(***************************************************************************)
(* The Version Selector over repeated runs: every run takes a package      *)
(* configuration and an upstream list, and what it selects is integrated   *)
(* and stored.                                                             *)
(***************************************************************************)
SelectorPackages ==
    {PackageWrapper(f, t, 0, FALSE, NoOverlay, EmptyMap) :
        f \in FetchModes \ {"Latest"}, t \in TrackedChoices}
        \cup {PackageWrapper(f, <<>>, 1, FALSE, NoOverlay, EmptyMap) :
                  f \in {"newer", "all"}}
        \cup {PackageWrapper("Latest", <<>>, 0, FALSE, NoOverlay, EmptyMap)}
        \cup {PackageWrapper("latest", t, 0, FALSE, NoOverlay, EmptyMap) :
                  t \in UnparsableTracked}

FetchedPlain == [k \in 1..Len(FetchVersions) |-> [ok |-> TRUE, chart |-> PlainChart]]

DownloadOk == [ok |-> TRUE, mime |-> ".png"]

NextSelector ==
    \/ \E pw \in SelectorPackages, versions \in UpstreamLists : Populate(pw, versions)
    \/ SkipPackage
    \/ ApplyUpdates(FetchedPlain, DownloadOk)
    \/ FinishRun
    \/ Restart

SpecSelector == Init /\ [][NextSelector]_vars

(***************************************************************************)
(* Properties of the Version Selector.                                     *)
(***************************************************************************)
IsLatestMode(fetch) == ToLower(fetch) = "" \/ ToLower(fetch) = "latest"

\* A stored string stands for an upstream version when both read as the same
\* version, or when the stored string with its package version stripped does.
StandsFor(storedVersion, version) ==
    \/ String(NewVersion(storedVersion)) = String(NewVersion(version))
    \/ StripPackageVersion(storedVersion) = String(NewVersion(version))

FoundInStorage(version, storedVersions) ==
    \E k \in 1..Len(storedVersions) : StandsFor(storedVersions[k], version)

\* The stored versions that no other stored version exceeds.
NewestStored(storedVersions) ==
    {s \in Range(storedVersions) :
        \A t \in Range(storedVersions) : Compare(NewVersion(s), NewVersion(t)) >= 0}

\* C4: in fetch mode `newer` no selected version is less than or equal to the
\* newest stored version, that stored version being normalized by
\* package-version stripping before the comparison.
C4_NewerAboveNewestStored ==
    \A k \in 1..Len(calls) :
        calls[k].fetch = "newer" =>
            \A s \in NewestStored(calls[k].stored) :
                \A j \in 1..Len(calls[k].result) :
                    Compare(NewVersion(calls[k].result[j]),
                            NewVersion(StripPackageVersion(s))) = 1

\* A `newer` run against a non-empty store that selects something and leaves
\* out an upstream version that is not stored.
C4_Witness ==
    /\ phase = "populated"
    /\ \E k \in 1..Len(calls) :
        /\ calls[k].fetch = "newer"
        /\ Len(calls[k].stored) > 1
        /\ Len(calls[k].result) > 0
        /\ \E j \in 1..Len(calls[k].versions) :
              /\ ~FoundInStorage(calls[k].versions[j], calls[k].stored)
              /\ calls[k].versions[j] \notin Range(calls[k].result)

\* C5: whatever the fetch mode and the tracked streams, no selected version
\* has a non-empty pre-release component.
C5_NoPreReleaseSelected ==
    \A k \in 1..Len(FetchVersions) :
        /\ NewVersion(FetchVersions[k]) # Nil
        /\ NewVersion(FetchVersions[k]).pre = NoPre

\* A run with tracked streams whose upstream lists a pre-release that is not
\* stored, and that selects something.
C5_Witness ==
    /\ phase = "populated"
    /\ Len(packageWrapper.UpstreamYaml.TrackVersions) > 0
    /\ Len(FetchVersions) > 0
    /\ \E k \in 1..Len(upstreamVersions) :
          /\ NewVersion(upstreamVersions[k]) # Nil
          /\ NewVersion(upstreamVersions[k]).pre # NoPre

\* C9: in fetch mode `latest`, for each stream or for the whole list, the
\* selection is empty when the newest upstream version is stored and is
\* exactly that newest version otherwise.
C9_LatestSelectsNewestOnly ==
    \A k \in 1..Len(calls) :
        IsLatestMode(calls[k].fetch) =>
            IF Len(calls[k].versions) = 0
            THEN calls[k].result = <<>>
            ELSE IF FoundInStorage(calls[k].versions[1], calls[k].stored)
            THEN calls[k].result = <<>>
            ELSE calls[k].result = <<calls[k].versions[1]>>

\* A `latest` run in which the newest upstream version is not stored, is
\* selected, and an older version that is not stored either is left out.
C9_Witness ==
    /\ phase = "populated"
    /\ \E k \in 1..Len(calls) :
        /\ IsLatestMode(calls[k].fetch)
        /\ Len(calls[k].stored) > 0
        /\ Len(calls[k].versions) > 1
        /\ calls[k].result = <<calls[k].versions[1]>>
        /\ \E j \in 2..Len(calls[k].versions) :
              ~FoundInStorage(calls[k].versions[j], calls[k].stored)

\* A `latest` run in which the newest upstream version is stored while an
\* older one is not, and nothing is selected.
C9_WitnessStored ==
    /\ phase = "populated"
    /\ \E k \in 1..Len(calls) :
        /\ IsLatestMode(calls[k].fetch)
        /\ Len(calls[k].versions) > 1
        /\ FoundInStorage(calls[k].versions[1], calls[k].stored)
        /\ ~FoundInStorage(calls[k].versions[2], calls[k].stored)
        /\ calls[k].result = <<>>

\* A run meets a string that is no semantic version: among the upstream
\* versions, or among the tracked streams of the package.
MeetsUnparsable ==
    /\ Len(upstreamVersions) > 0
    /\ \/ \E k \in 1..Len(upstreamVersions) : NewVersion(upstreamVersions[k]) = Nil
       \/ \E k \in 1..Len(packageWrapper.UpstreamYaml.TrackVersions) :
             NewVersion(packageWrapper.UpstreamYaml.TrackVersions[k]) = Nil

\* C17: a run of the selector that meets a version string that does not
\* parse still returns (it does not end the process), and the string is in
\* none of the lists it selects from nor in the selection.
C17_UnparsableExcluded ==
    (phase \in {"populated", "crashed"} /\ MeetsUnparsable) =>
        /\ phase = "populated"
        /\ \A k \in 1..Len(FetchVersions) : NewVersion(FetchVersions[k]) # Nil
        /\ \A c \in 1..Len(calls) :
              \A k \in 1..Len(calls[c].versions) : NewVersion(calls[c].versions[k]) # Nil

\* The part of C17 the selector keeps: an upstream version that does not
\* parse is dropped and the run returns a selection without it.
C17_UpstreamUnparsableDropped ==
    (/\ phase \in {"populated", "crashed"}
     /\ Len(upstreamVersions) > 0
     /\ \A k \in 1..Len(packageWrapper.UpstreamYaml.TrackVersions) :
           NewVersion(packageWrapper.UpstreamYaml.TrackVersions[k]) # Nil) =>
        /\ phase = "populated"
        /\ \A k \in 1..Len(FetchVersions) : NewVersion(FetchVersions[k]) # Nil

\* The versions of a list that belong to a stream, in the order of the list.
OfStream(versions, trackedVersion) ==
    LET InStream(version) ==
            /\ NewVersion(version) # Nil
            /\ NewVersion(trackedVersion) # Nil
            /\ NewVersion(version).major = NewVersion(trackedVersion).major
            /\ NewVersion(version).minor = NewVersion(trackedVersion).minor
    IN  SelectSeq(versions, InStream)

\* seq lists its elements newest first, without repetition.
NewestFirst(seq) ==
    \A i, j \in 1..Len(seq) :
        i < j => GreaterThan(NewVersion(seq[i]), NewVersion(seq[j]))

\* sub holds elements of seq only.
Within(sub, seq) == Range(sub) \subseteq Range(seq)

\* C19: with tracked streams and an upstream list that is newest first,
\* there is one selection per configured stream, in the configured order;
\* the selection of the run is their concatenation; the candidates of a
\* stream are exactly the release versions of the upstream list in that
\* stream, and its selection is taken from them, newest first.
C19_TrackedConcatenation ==
    (/\ phase = "populated"
     /\ ~populateErr
     /\ Len(packageWrapper.UpstreamYaml.TrackVersions) > 0
     /\ NewestFirst(stripPreRelease(upstreamVersions))) =>
        LET TrackVersions == packageWrapper.UpstreamYaml.TrackVersions
        IN  /\ Len(calls) = Len(TrackVersions)
            /\ FetchVersions = Concat([k \in 1..Len(calls) |-> calls[k].result])
            /\ \A k \in 1..Len(calls) :
                  /\ calls[k].versions
                         = OfStream(stripPreRelease(upstreamVersions), TrackVersions[k])
                  /\ Within(calls[k].result, calls[k].versions)
                  /\ NewestFirst(calls[k].result)

\* A run with two tracked streams, each of which contributes a version, the
\* second stream holding an older version that is not selected.
C19_Witness ==
    /\ phase = "populated"
    /\ ~populateErr
    /\ Len(packageWrapper.UpstreamYaml.TrackVersions) = 2
    /\ NewestFirst(stripPreRelease(upstreamVersions))
    /\ Len(calls) = 2
    /\ Len(calls[1].result) > 0
    /\ Len(calls[2].result) > 0
    /\ Len(calls[2].versions) > Len(calls[2].result)
    /\ FetchVersions = calls[1].result \o calls[2].result

(***************************************************************************)
(* The Chart Integrator over repeated runs: the fetched charts may carry   *)
(* annotations of their own, the icon download may fail, and between runs  *)
(* the package may be featured.                                            *)
(***************************************************************************)
PartnerOverlay == [NoOverlay EXCEPT !.Description = "partner", !.KubeVersion = ">=1.21"]

PartnerOverlayFiles == [f \in {"values.yaml"} |-> "overlay"]

\* ChartMetadata of an upstream.yaml whose version is no semantic version.
UnversionedOverlay == [NoOverlay EXCEPT !.Version = BadStr]

\* The packages of the integrator runs: package versions on both sides of
\* MaxPatchNum, and one package with an overlay.
IntegratePackages ==
    {PackageWrapper("latest", <<>>, p, FALSE, NoOverlay, EmptyMap) :
        p \in {0, 1, MaxPatchNum - 1, MaxPatchNum}}
        \cup {PackageWrapper("all", <<>>, 1, TRUE, PartnerOverlay, PartnerOverlayFiles)}

IntegrateLists ==
    {SortEntries(S) : S \in {T \in SUBSET {Plain(1, 0, 0), Plain(1, 0, 1), Plain(1, 1, 0)} :
                                T # {} /\ Cardinality(T) <= MaxUpstream}}

\* The charts an upstream may serve: without annotations, or already carrying
\* the featured annotation.
FetchedCharts == {PlainChart, UpstreamChart(Put(EmptyMap, annotationFeatured, "3"), "")}

\* What the fetcher answers for n selected versions: a chart for each of
\* them, or a failure.
FetchedChoices(n) ==
    {[k \in 1..n |-> [ok |-> TRUE, chart |-> c[k]]] : c \in [1..n -> FetchedCharts]}
        \cup {[k \in 1..n |-> [ok |-> FALSE, chart |-> PlainChart]]}

DownloadFails == [ok |-> FALSE, mime |-> ""]

NextIntegrate ==
    \/ \E pw \in IntegratePackages, versions \in IntegrateLists : Populate(pw, versions)
    \/ SkipPackage
    \/ \E fetched \in FetchedChoices(Len(FetchVersions)), download \in {DownloadOk, DownloadFails} :
          ApplyUpdates(fetched, download)
    \/ FinishRun
    \/ addFeaturedChart("1")

SpecIntegrate == Init /\ [][NextIntegrate]_vars

(***************************************************************************)
(* Properties of the Chart Integrator.                                     *)
(***************************************************************************)
IsFeatured(chartWrapper) == Has(chartWrapper.Chart.Metadata.Annotations, annotationFeatured)

\* An existing chart as the featured-annotation step leaves it when it
\* touches it: the featured annotation removed, the Modified flag set.
FeaturedRemoved(chartWrapper) ==
    [Chart |-> SetMeta(chartWrapper.Chart, "Annotations",
                       Remove(chartWrapper.Chart.Metadata.Annotations, annotationFeatured)),
     Modified |-> TRUE]

\* C1: after integrateCharts every existing chart is identical to what it was
\* before, field for field, except that the featured-annotation step may have
\* removed its featured annotation and set its Modified flag.
C1_ExistingChartsUntouched ==
    phase = "applied" =>
        /\ Len(applied.existingAfter) = Len(applied.existingBefore)
        /\ \A k \in 1..Len(applied.existingBefore) :
              \/ applied.existingAfter[k] = applied.existingBefore[k]
              \/ /\ IsFeatured(applied.existingBefore[k])
                 /\ applied.existingAfter[k] = FeaturedRemoved(applied.existingBefore[k])

\* A successful integration with overlay files, a metadata overlay and a
\* package version, in which one existing chart lost its featured annotation
\* and another existing chart was left as it was.
C1_Witness ==
    /\ phase = "applied"
    /\ applied.integrated
    /\ packageWrapper.OverlayFiles # EmptyMap
    /\ packageWrapper.UpstreamYaml.ChartMetadata # NoOverlay
    /\ packageWrapper.UpstreamYaml.PackageVersion # 0
    /\ \E k \in 1..Len(applied.newBefore) : applied.newAfter[k] # applied.newBefore[k]
    /\ \E k \in 1..Len(applied.existingBefore) :
          applied.existingAfter[k] = applied.existingBefore[k]
    /\ \E k \in 1..Len(applied.existingBefore) :
          applied.existingAfter[k] # applied.existingBefore[k]

\* C2: after integrateCharts has returned without error, at most one chart
\* among the existing and the new charts carries the featured annotation.
C2_AtMostOneFeatured ==
    (phase = "applied" /\ applied.integrated) =>
        LET allCharts == applied.existingAfter \o applied.newAfter
        IN  Cardinality({k \in 1..Len(allCharts) : IsFeatured(allCharts[k])}) <= 1

\* The featured values carried by a list of charts.
FeaturedValues(chartWrappers) ==
    {chartWrappers[k].Chart.Metadata.Annotations[annotationFeatured] :
        k \in {j \in 1..Len(chartWrappers) : IsFeatured(chartWrappers[j])}}

CarriesFeatured(chartWrapper, value) ==
    /\ IsFeatured(chartWrapper)
    /\ chartWrapper.Chart.Metadata.Annotations[annotationFeatured] = value

\* C12: when the existing charts carry exactly one featured value v, after
\* integrateCharts has returned without error the last new chart carries
\* featured = v, no other new chart carries it, and no existing chart
\* carries the featured annotation.
C12_FeaturedMovesToLastNew ==
    (/\ phase = "applied"
     /\ applied.integrated
     /\ Cardinality(FeaturedValues(applied.existingBefore)) = 1) =>
        \A v \in FeaturedValues(applied.existingBefore) :
            /\ Len(applied.newAfter) > 0
            /\ CarriesFeatured(applied.newAfter[Len(applied.newAfter)], v)
            /\ \A k \in 1..(Len(applied.newAfter) - 1) :
                  ~CarriesFeatured(applied.newAfter[k], v)
            /\ \A k \in 1..Len(applied.existingAfter) : ~IsFeatured(applied.existingAfter[k])

\* The part of C12 the integrator keeps: the same, for new charts that come
\* from upstream without a featured annotation.
C12_HoldsForUnfeaturedUpstream ==
    (/\ phase = "applied"
     /\ applied.integrated
     /\ Cardinality(FeaturedValues(applied.existingBefore)) = 1
     /\ \A k \in 1..Len(applied.newBefore) : ~IsFeatured(applied.newBefore[k])) =>
        \A v \in FeaturedValues(applied.existingBefore) :
            /\ Len(applied.newAfter) > 0
            /\ CarriesFeatured(applied.newAfter[Len(applied.newAfter)], v)
            /\ \A k \in 1..(Len(applied.newAfter) - 1) : ~IsFeatured(applied.newAfter[k])
            /\ \A k \in 1..Len(applied.existingAfter) : ~IsFeatured(applied.existingAfter[k])

\* chartWrapper has the highest version of the list.
IsLatestChart(chartWrapper, chartWrappers) ==
    \A k \in 1..Len(chartWrappers) :
        ~GreaterThan(NewVersion(chartWrappers[k].Chart.Metadata.Version),
                     NewVersion(chartWrapper.Chart.Metadata.Version))

\* C20: after a successful integration of a featured package (its existing
\* charts carry one featured value, the charts fetched from upstream carry
\* none), exactly one chart of the package is featured and it is the chart
\* with the highest version.
C20_FeaturedIsLatest ==
    (/\ phase = "applied"
     /\ applied.integrated
     /\ Cardinality(FeaturedValues(applied.existingBefore)) = 1
     /\ \A k \in 1..Len(applied.newBefore) : ~IsFeatured(applied.newBefore[k])) =>
        LET allCharts == applied.existingAfter \o applied.newAfter
        IN  /\ Cardinality({k \in 1..Len(allCharts) : IsFeatured(allCharts[k])}) = 1
            /\ \A k \in 1..Len(allCharts) :
                  IsFeatured(allCharts[k]) => IsLatestChart(allCharts[k], allCharts)

\* C10: with a package version p configured, 0 < p < 100, generating the
\* version does not fail, and every integrated chart has the patch number
\* upstreamPatch * 100 + p with the major and minor numbers of upstream.
C10_EncodingBelowHundred ==
    LET p == packageWrapper.UpstreamYaml.PackageVersion IN
    (phase = "applied" /\ p > 0 /\ p < 100) =>
        /\ applied.err # "failed to generate version"
        /\ applied.integrated =>
              \A k \in 1..Len(applied.newBefore) :
                  LET upstream == NewVersion(applied.newBefore[k].Chart.Metadata.Version)
                      integrated == NewVersion(applied.newAfter[k].Chart.Metadata.Version)
                  IN  /\ integrated # Nil
                      /\ integrated.patch = upstream.patch * 100 + p
                      /\ integrated.major = upstream.major
                      /\ integrated.minor = upstream.minor

(***************************************************************************)
(* Update runs over the packages of the repository: each run lists the     *)
(* package directories, populates every package from what its upstream     *)
(* answers, applies the updates and writes index.yaml.  Between runs a     *)
(* package may be featured.                                                *)
(***************************************************************************)
HelmYaml(name, fetch) == UpstreamYaml(name, "https://charts.example.com", "", fetch, FALSE)

\* A package whose chart comes from a git repository: no HelmChart.
GitYaml == UpstreamYaml("", "", "https://git.example.com/chart.git", "", FALSE)

DeprecatedYaml(name) == UpstreamYaml(name, "https://charts.example.com", "", "", TRUE)

\* HelmChart without HelmRepo: a required upstream field is missing.
MissingRepoYaml(name) == UpstreamYaml(name, "", "", "", FALSE)

\* A fetch policy that is none of latest, newer and all.
MalformedFetch == "sometimes"

OtherPackage == "argo"

\* The package directories of a run, in the order filepath.Glob returns
\* them, each with its upstream.yaml.
RunMatches ==
    LET k10 == {HelmYaml(PackageName, ""), HelmYaml(PackageName, "all"),
                MissingRepoYaml(PackageName), HelmYaml(PackageName, MalformedFetch)}
        other == {GitYaml, DeprecatedYaml(OtherPackage), MissingRepoYaml(OtherPackage)}
    IN  {<<[Name |-> PackageName, contents |-> f]>> : f \in k10}
            \cup {<<[Name |-> OtherPackage, contents |-> g],
                    [Name |-> PackageName, contents |-> f]>> :
                      g \in other, f \in {HelmYaml(PackageName, ""),
                                          MissingRepoYaml(PackageName)}}

\* What fetcher.FetchUpstream returns: an error, or the versions the
\* upstream lists, which may be none.  The other package has one release.
UpstreamAnswers(name) ==
    {[ok |-> FALSE, versions |-> <<>>]}
        \cup {[ok |-> TRUE, versions |-> v] :
                 v \in {<<>>, <<VerStr("plain", 1, 1, 2, "rc1")>>, <<Plain(1, 0, 0)>>}
                          \cup IF name = OtherPackage THEN {}
                               ELSE {<<Plain(1, 0, 1), Plain(1, 0, 0)>>, <<Plain(1, 1, 0)>>}}

\* What the fetcher returns for the selected versions of a package: charts
\* without annotations, charts that carry the featured annotation, or a
\* failure.
RunFetched(entry) ==
    {[k \in 1..Len(entry.FetchVersions) |-> [ok |-> TRUE, chart |-> c]] :
        c \in IF entry.packageWrapper.Name = OtherPackage THEN {PlainChart}
              ELSE FetchedCharts}
        \cup {[k \in 1..Len(entry.FetchVersions) |-> [ok |-> FALSE, chart |-> PlainChart]]}

NextRun ==
    \/ \E matches \in RunMatches : generateChangesList(matches)
    \/ /\ batch.step = "populating"
       /\ \E answer \in UpstreamAnswers(batch.packageWrappers[Len(batch.populations) + 1].Name) :
             generateChangesPopulate(answer)
    \/ /\ batch.step = "applying"
       /\ \E fetched \in RunFetched(batch.packageList[Len(batch.results) + 1]) :
             generateChangesApply(fetched, DownloadOk)
    \/ generateChangesExit
    \/ addFeaturedChart("1")

SpecRun == Init /\ [][NextRun]_vars

(***************************************************************************)
(* Properties of update runs.                                              *)
(***************************************************************************)
\* The run has ended: generateChanges returned or the process exited.
RunEnded == batch.step \in {"returned", "fatal", "done", "panicked"}

\* C11: when ApplyUpdates finds two existing charts of the package with
\* different featured values, it returns an error, the archives of the
\* assets directory are what they were, and the package is in skippedList.
C11_FeaturedConflictSkipsPackage ==
    \A k \in 1..Len(batch.results) :
        LET r == batch.results[k] IN
        Cardinality(FeaturedValues(r.applied.existingBefore)) > 1 =>
            /\ r.applied.err # NoErr
            /\ ~r.applied.integrated
            /\ r.applied.assets = r.assetsBefore
            /\ r.Name \in Range(batch.skippedList)

\* A run that has ended in which the charts of a package were fetched, two
\* of its existing charts carried different featured values, and the
\* package was skipped with the error of ensureFeaturedAnnotation.
C11_Witness ==
    /\ RunEnded
    /\ \E k \in 1..Len(batch.results) :
          LET r == batch.results[k] IN
          /\ Cardinality(FeaturedValues(r.applied.existingBefore)) > 1
          /\ Len(r.applied.newBefore) > 0
          /\ r.applied.err = "found two different values for featured annotation"
          /\ r.applied.assets = r.assetsBefore
          /\ r.Name \in Range(batch.skippedList)

\* The packages of the run that are not deprecated.
BatchNames ==
    {batch.packageWrappers[k].Name :
        k \in {j \in 1..Len(batch.packageWrappers) :
                  ~batch.packageWrappers[j].UpstreamYaml.Deprecated}}

\* Populate or ApplyUpdates returned an error for the package.
PackageFailed(name) ==
    \/ \E k \in 1..Len(batch.populations) :
          batch.populations[k].Name = name /\ batch.populations[k].outcome = "error"
    \/ \E k \in 1..Len(batch.results) :
          batch.results[k].Name = name /\ batch.results[k].applied.err # NoErr

\* The package was updated: ApplyUpdates returned without error.
PackageSucceeded(name) ==
    \E k \in 1..Len(batch.results) :
        batch.results[k].Name = name /\ batch.results[k].applied.err = NoErr

\* C13: a run in which every package failed ends fatally; a run in which a
\* package succeeded ends with index.yaml written from the assets
\* directory and every failed package in the list of skipped packages.
C13_AllFailedFatalElseSummary ==
    (RunEnded /\ batch.step # "panicked" /\ BatchNames # {}) =>
        /\ (\A n \in BatchNames : PackageFailed(n)) => batch.step = "fatal"
        /\ (\E n \in BatchNames : PackageSucceeded(n)) =>
              /\ batch.step = "done"
              /\ index = writeIndex(assets, icons)
              /\ \A n \in BatchNames : PackageFailed(n) => n \in Range(batch.skippedList)

\* The part of C13 generateChanges keeps: the same for the packages that
\* reached ApplyUpdates.
C13_HoldsForAppliedPackages ==
    (RunEnded /\ Len(batch.results) > 0) =>
        LET Failed == {k \in 1..Len(batch.results) : batch.results[k].applied.err # NoErr}
        IN  /\ Cardinality(Failed) = Len(batch.results) => batch.step = "fatal"
            /\ Cardinality(Failed) < Len(batch.results) =>
                  /\ batch.step = "done"
                  /\ index = writeIndex(assets, icons)
                  /\ Range(batch.skippedList) = {batch.results[k].Name : k \in Failed}

\* An upstream.yaml with a configuration error: its fetch policy is none
\* of the known ones, or it does not define an upstream completely.
MalformedFetchPolicy(contents) ==
    ToLower(contents.Fetch) \notin {"", "latest", "newer", "all"}

MissingUpstreamFields(contents) ==
    ~(\/ contents.ArtifactHubPackage # "" /\ contents.ArtifactHubRepo # ""
      \/ contents.GitRepo # ""
      \/ contents.HelmRepo # "" /\ contents.HelmChart # "")

ConfigurationError(contents) ==
    MalformedFetchPolicy(contents) \/ MissingUpstreamFields(contents)

\* C14: in a run over packages of which some have a configuration error in
\* their upstream.yaml, those packages are skipped (never populated nor
\* applied) and every other package is processed.
C14_ConfigErrorSkipsOnlyThatPackage ==
    RunEnded =>
        \A k \in 1..Len(batch.matches) :
            IF ConfigurationError(batch.matches[k].contents)
            THEN /\ \A j \in 1..Len(batch.populations) :
                       batch.populations[j].Name # batch.matches[k].Name
                 /\ \A j \in 1..Len(batch.results) :
                       batch.results[j].Name # batch.matches[k].Name
            ELSE \E j \in 1..Len(batch.populations) :
                     batch.populations[j].Name = batch.matches[k].Name

\* Populate was called for the package and its upstream answered with a
\* list that holds no release version.
NoEligibleVersions(population) ==
    /\ population.outcome # "deprecated"
    /\ population.answer.ok
    /\ Len(stripPreRelease(population.answer.versions)) = 0

\* C16: when the upstream list of a package is empty after pre-release
\* stripping, Populate returns an error, the package is not applied, and
\* the run goes on to the remaining packages.
C16_NoEligibleVersionsSkipsPackage ==
    \A k \in 1..Len(batch.populations) :
        NoEligibleVersions(batch.populations[k]) =>
            /\ batch.populations[k].outcome = "error"
            /\ \A j \in 1..Len(batch.packageList) :
                  batch.packageList[j].packageWrapper.Name # batch.populations[k].Name
            /\ batch.step # "populating" => Len(batch.populations) = Len(batch.packageWrappers)

\* The part of C16 the selector keeps: the same, for an upstream that lists
\* at least one version.
C16_HoldsForListedVersions ==
    \A k \in 1..Len(batch.populations) :
        (NoEligibleVersions(batch.populations[k])
         /\ Len(batch.populations[k].answer.versions) > 0) =>
            /\ batch.populations[k].outcome = "error"
            /\ \A j \in 1..Len(batch.packageList) :
                  batch.packageList[j].packageWrapper.Name # batch.populations[k].Name
            /\ RunEnded =>
                  \/ Len(batch.populations) = Len(batch.packageWrappers)
                  \/ batch.populations[Len(batch.populations)].outcome = "panic"

\* The upstream.yaml of a package of the run, as it is on disk.
UpstreamYamlOf(name) ==
    batch.matches[CHOOSE k \in 1..Len(batch.matches) : batch.matches[k].Name = name].contents

\* C18: when the upstream.yaml of a package does not set ReleaseName, every
\* chart that integrateCharts has integrated for it carries the release-name
\* annotation with the package name as its value.
C18_ReleaseNameDefaultsToPackage ==
    \A k \in 1..Len(batch.results) :
        LET r == batch.results[k] IN
        (UpstreamYamlOf(r.Name).ReleaseName = "" /\ r.applied.integrated) =>
            \A j \in 1..Len(r.applied.newAfter) :
                LET annotations == r.applied.newAfter[j].Chart.Metadata.Annotations
                IN  /\ Has(annotations, annotationReleaseName)
                    /\ annotations[annotationReleaseName] = r.Name

\* The part of C18 the code keeps: the annotation is the package name when
\* the HelmChart of upstream.yaml is the package name.
C18_HoldsWhenHelmChartIsName ==
    \A k \in 1..Len(batch.results) :
        LET r == batch.results[k] IN
        (/\ UpstreamYamlOf(r.Name).ReleaseName = ""
         /\ UpstreamYamlOf(r.Name).HelmChart = r.Name
         /\ r.applied.integrated) =>
            \A j \in 1..Len(r.applied.newAfter) :
                LET annotations == r.applied.newAfter[j].Chart.Metadata.Annotations
                IN  /\ Has(annotations, annotationReleaseName)
                    /\ annotations[annotationReleaseName] = r.Name

(***************************************************************************)
(* The Release Validator: a reference tree is cloned beside a working      *)
(* copy, the two assets directories are compared, and the process exits.   *)
(***************************************************************************)
PkgDir == <<"k10">>

PkgTgz == <<"k10", "k10-1.0.0.tgz">>

PkgNotes == <<"docs", "NOTES.md">>

IconFile == <<"icons", "k10.png">>

\* The released chart and what a pull request may have made of it.
ReleasedChart == SetMeta(PlainChart, "Version", Plain(1, 0, 0))

Annotated(helmChart, annotation) ==
    SetMeta(helmChart, "Annotations", Put(helmChart.Metadata.Annotations, annotation, "true"))

ArchiveContents ==
    {Tgz(ReleasedChart),
     Tgz(Annotated(ReleasedChart, annotationHidden)),
     Tgz(SetMeta(Annotated(ReleasedChart, annotationFeatured), "Deprecated", TRUE)),
     Tgz(Annotated(ReleasedChart, annotationLookalike)),
     Tgz(Annotated(ReleasedChart, annotationForeign)),
     Tgz(SetMeta(ReleasedChart, "Description", "edited")),
     Tgz([ReleasedChart EXCEPT !.Files["templates/app.yaml"] = "edited"]),
     Raw("not an archive")}

\* A path with one of the contents, or not there.
Optional(path, contents) == {NoTree} \cup {path :> File(c) : c \in contents}

\* The package directory: missing, a file of that name, or a directory in one
\* of dirKinds with or without the archive.
PackageSubtrees(dirKinds) ==
    {NoTree, PkgDir :> File(Raw("a"))}
        \cup {(PkgDir :> d) @@ tgz : d \in dirKinds, tgz \in Optional(PkgTgz, ArchiveContents)}

\* A directory in one of dirKinds that holds one file, or no such directory.
FileInDir(path, dirKinds, contents) ==
    {NoTree} \cup {(Parent(path) :> d) @@ (path :> File(c)) : d \in dirKinds, c \in contents}

Trees(dirKinds, notesContents) ==
    {NoTree} \cup {(Root :> Dir) @@ package @@ docs @@ icon :
                      package \in PackageSubtrees(dirKinds),
                      docs \in FileInDir(PkgNotes, dirKinds, notesContents),
                      icon \in FileInDir(IconFile, dirKinds, {Raw("a")})}

HasEmptyDir(tree) ==
    \E p \in DOMAIN tree :
        /\ p # Root
        /\ tree[p].kind # "file"
        /\ ~\E q \in DOMAIN tree : Len(q) = Len(p) + 1 /\ SubSeq(q, 1, Len(p)) = p

\* The assets directory of a fresh clone: every directory can be read, and
\* git keeps no empty directory.
ReferenceTrees == {t \in Trees({Dir}, {Raw("a")}) : ~HasEmptyDir(t)}

\* The assets directory of the working copy.
WorkingTrees == Trees({Dir, LockedDir}, {Raw("a"), Raw("b")})

\* cloneRepo beside the working copy the validator was started in.
cloneRepo(upstream, update) ==
    /\ validation.step = "none"
    /\ reference = NoTree /\ workingCopy = NoTree
    /\ reference' = upstream
    /\ workingCopy' = update
    /\ validation' = [validation EXCEPT !.step = "cloned", !.tempDirs = {cloneDir}]
    /\ UNCHANGED <<diskVars, runVars, conv, batch>>

\* cloneRepo returns an error: preventReleasedChartModifications calls
\* logrus.Fatal, which exits the process without running the deferred
\* os.RemoveAll(cloneDir).
cloneRepoFails ==
    /\ validation.step = "none"
    /\ reference = NoTree /\ workingCopy = NoTree
    /\ validation' = [validation EXCEPT !.step = "fatal", !.tempDirs = {cloneDir}]
    /\ UNCHANGED <<reference, workingCopy, diskVars, runVars, conv, batch>>

\* preventReleasedChartModifications after the clone.
PreventReleasedChartModifications ==
    /\ validation.step = "cloned"
    /\ validation' = [step |-> "validated",
                       tempDirs |-> tempDirsLeft(reference, workingCopy)] @@
                        preventReleasedChartModifications(reference, workingCopy)
    /\ UNCHANGED <<reference, workingCopy, diskVars, runVars, conv, batch>>

\* The validator process has ended; it is started again on a machine
\* without what the last run left behind.
ExitValidator ==
    /\ validation.step \in {"validated", "fatal"}
    /\ reference' = NoTree
    /\ workingCopy' = NoTree
    /\ validation' = NotValidated
    /\ UNCHANGED <<diskVars, runVars, conv, batch>>

NextValidate ==
    \/ \E upstream \in ReferenceTrees, update \in WorkingTrees : cloneRepo(upstream, update)
    \/ cloneRepoFails
    \/ PreventReleasedChartModifications
    \/ ExitValidator

SpecValidate == Init /\ [][NextValidate]_vars

(***************************************************************************)
(* Properties of the Release Validator.                                    *)
(***************************************************************************)
\* The annotation keys of the Rancher namespace, catalog.cattle.io/.
InRancherNamespace(annotation) ==
    annotation \in {annotationAutoInstall, annotationCertified, annotationDisplayName,
                    annotationExperimental, annotationFeatured, annotationHidden,
                    annotationKubeVersion, annotationNamespace, annotationReleaseName}

\* Two charts with the same files and the same Chart.yaml, the deprecated
\* field and the annotations of the Rancher namespace apart.
DifferOnlyInRancherFields(a, b) ==
    /\ a.Files = b.Files
    /\ \A f \in (DOMAIN a.Metadata) \ {"Annotations", "Deprecated"} :
          a.Metadata[f] = b.Metadata[f]
    /\ \A k \in (DOMAIN a.Metadata.Annotations) \cup (DOMAIN b.Metadata.Annotations) :
          ~InRancherNamespace(k) =>
              /\ Has(a.Metadata.Annotations, k)
              /\ Has(b.Metadata.Annotations, k)
              /\ a.Metadata.Annotations[k] = b.Metadata.Annotations[k]

HoldsArchive(tree, path) ==
    /\ IsTgz(path)
    /\ ReadFile(tree, path) # Unreadable
    /\ "chart" \in DOMAIN ReadFile(tree, path)

\* The paths at which both the reference tree and the working copy hold a
\* chart archive.
ArchivePaths ==
    {p \in DOMAIN reference : HoldsArchive(reference, p) /\ HoldsArchive(workingCopy, p)}

\* C6: a released archive whose working-copy counterpart differs from it in a
\* template, a values file or a Chart.yaml field other than deprecated and
\* the Rancher-namespaced annotations is recorded as Modified, and the
\* validator returns an error for it.
C6_ModifiedArchiveReported ==
    validation.step = "validated" =>
        \A p \in ArchivePaths :
            ~DifferOnlyInRancherFields(ReadFile(reference, p).chart,
                                       ReadFile(workingCopy, p).chart) =>
                /\ p \in validation.compared.Modified
                /\ p \in validation.errors

\* C7: two archives that differ only in annotations of the Rancher namespace
\* and in the deprecated field match for matchHelmCharts; the path is never
\* recorded as Modified nor reported, and it is recorded as Unchanged when
\* the comparison of the trees completes.
C7_RancherOnlyDifferenceUnchanged ==
    validation.step = "validated" =>
        \A p \in ArchivePaths :
            DifferOnlyInRancherFields(ReadFile(reference, p).chart,
                                      ReadFile(workingCopy, p).chart) =>
                /\ matchHelmCharts(ReadFile(reference, p), ReadFile(workingCopy, p)).match
                /\ p \notin validation.compared.Modified
                /\ p \notin validation.errors
                /\ validation.compared.err = NoErr => p \in validation.compared.Unchanged

\* A completed comparison in which the archive of the working copy has
\* gained a Rancher annotation and the deprecated flag, and is Unchanged.
C7_Witness ==
    /\ validation.step = "validated"
    /\ validation.compared.err = NoErr
    /\ \E p \in ArchivePaths :
          /\ ReadFile(reference, p) # ReadFile(workingCopy, p)
          /\ ReadFile(workingCopy, p).chart.Metadata.Deprecated
          /\ Has(ReadFile(workingCopy, p).chart.Metadata.Annotations, annotationFeatured)
          /\ DifferOnlyInRancherFields(ReadFile(reference, p).chart,
                                       ReadFile(workingCopy, p).chart)
          /\ p \in validation.compared.Unchanged

FilePaths(tree) == {p \in DOMAIN tree : tree[p].kind = "file"}

UnderSkipped(path, skipDirs) == \E a \in Ancestors(path) : a \in skipDirs

\* The number of sets of a comparison that hold a path.
SetsHolding(directoryComparison, path) ==
    Cardinality({n \in {"Unchanged", "Modified", "Added", "Removed"} :
                    path \in directoryComparison[n]})

\* C8: after compareDirectories has succeeded, every file path of either tree
\* outside the skipped subtrees is in exactly one of the four sets, and every
\* path under a skipped subtree is in none.
C8_ExactlyOneSet ==
    (/\ validation.step = "validated"
     /\ Exists(reference, Root) /\ Exists(workingCopy, Root)
     /\ validation.compared.err = NoErr) =>
        \A p \in FilePaths(reference) \cup FilePaths(workingCopy) :
            SetsHolding(validation.compared, p)
                = IF UnderSkipped(p, {IconsDir}) THEN 0 ELSE 1

\* C15: when preventReleasedChartModifications has returned, or the
\* validator process has exited, no temporary directory the validator
\* created is left: neither the clone target nor a directory a chart was
\* exported to.
C15_TempDirsRemoved ==
    validation.step \in {"validated", "fatal"} => validation.tempDirs = {}

\* The part of C15 the validator keeps: when the clone succeeds, the clone
\* target and the export directories of every compared pair of archives are
\* gone when the call returns.
C15_RemovedAfterClone ==
    validation.step = "validated" => validation.tempDirs = {}

(***************************************************************************)
(* The functions of main.go and pkg/conform on their own: a call takes its *)
(* arguments from the sets below and leaves them, with what it returned,   *)
(* in conv.                                                                *)
(***************************************************************************)
\* Annotations a chart may carry in the Chart.yaml its upstream serves.
CallAnnotations ==
    {EmptyMap,
     Put(EmptyMap, annotationCertified, "rancher"),
     Put(EmptyMap, annotationCertified, "partner"),
     Put(EmptyMap, annotationKubeVersion, ">=1.19"),
     Put(EmptyMap, annotationFeatured, "3")}

CallCharts ==
    {SetMeta(UpstreamChart(a, k), "Version", Plain(1, 0, 0)) :
        a \in CallAnnotations, k \in {"", ">=1.20"}}

CallPackages ==
    {PackageWrapper("latest", <<>>, p, h, o, EmptyMap) :
        p \in {0, 1}, h \in BOOLEAN, o \in {NoOverlay, PartnerOverlay}}

CalladdAnnotations(pw, helmChart) ==
    /\ conv = NoConv
    /\ LET annotated == addAnnotations(pw, helmChart)
       IN  conv' = [step |-> "addAnnotations", packageWrapper |-> pw,
                    before |-> helmChart, after |-> annotated.chart, err |-> annotated.err]
    /\ UNCHANGED <<diskVars, runVars, batch, validatorVars>>

\* The fields of chart.Metadata that are strings, and the value each has in
\* a zero Metadata.
StringFields ==
    {"Name", "Home", "Version", "Description", "Icon", "APIVersion", "Condition", "Tags",
     "AppVersion", "KubeVersion", "Type"}

ZeroValue(field) == NoOverlay[field]

NewValue(field) ==
    IF field = "Version" THEN Plain(1, 1, 0)
    ELSE IF field = "Icon" THEN [scheme |-> "https://", name |-> "example.com/new", ext |-> ".svg"]
    ELSE "new"

\* Overlays that set one string field, all of them, or none.
CallOverlays ==
    {[NoOverlay EXCEPT ![f] = NewValue(f)] : f \in StringFields}
        \cup {[f \in DOMAIN NoOverlay |-> IF f \in StringFields THEN NewValue(f) ELSE NoOverlay[f]],
              NoOverlay, PartnerOverlay}

CallOverlayChartMetadata(helmChart, overlay) ==
    /\ conv = NoConv
    /\ conv' = [step |-> "OverlayChartMetadata", overlay |-> overlay,
                before |-> helmChart, after |-> OverlayChartMetadata(helmChart, overlay)]
    /\ UNCHANGED <<diskVars, runVars, batch, validatorVars>>

\* A chart archive as it may lie in the vendor's assets directory, and the
\* same chart edited in memory.
NamedChart(name, version, description) ==
    [Metadata |-> [PlainChart.Metadata EXCEPT !.Name = name, !.Version = version,
                                              !.Description = description],
     Files |-> PlainChart.Files]

\* A package of the same vendor whose name begins with "<PackageName>-".
DashPackage == "k10-extra"

CallVersions == {Plain(1, 0, 0), Plain(1, 1, 0)}

\* Assets directories of the vendor: archives of the package and of the
\* other package.
CallAssets ==
    SUBSET ({NamedChart(PackageName, v, "upstream") : v \in CallVersions}
                \cup {NamedChart(DashPackage, Plain(1, 0, 0), "upstream")})

CallWrappers ==
    {[Chart |-> NamedChart(PackageName, v, d), Modified |-> modified] :
        v \in CallVersions, d \in {"upstream", "edited"}, modified \in BOOLEAN}

\* Chart lists of at most two charts of different versions.
CallWrapperLists ==
    {<<>>} \cup {<<w>> : w \in CallWrappers}
        \cup {pair \in CallWrappers \X CallWrappers :
                  pair[1].Chart.Metadata.Version # pair[2].Chart.Metadata.Version}

CallwriteCharts(assetFiles, chartWrappers) ==
    /\ conv = NoConv
    /\ LET written == writeCharts(assetFiles, PackageName, chartWrappers)
       IN  conv' = [step |-> "writeCharts", assetsBefore |-> assetFiles,
                    chartWrappers |-> chartWrappers, assets |-> written.assets,
                    chartsDir |-> written.chartsDir, err |-> written.err]
    /\ UNCHANGED <<diskVars, runVars, batch, validatorVars>>

CallloadExistingCharts(assetFiles, packageName) ==
    /\ conv = NoConv
    /\ conv' = [step |-> "loadExistingCharts", assetsBefore |-> assetFiles,
                packageName |-> packageName,
                existingCharts |-> loadExistingCharts(assetFiles, packageName)]
    /\ UNCHANGED <<diskVars, runVars, batch, validatorVars>>

\* Wrappers for the featured-annotation step: the chart of a position, with
\* or without a featured annotation, its Modified flag set or not.
FeaturedChoices == {EmptyMap} \cup {Put(EmptyMap, annotationFeatured, v) : v \in {"", "3", "5"}}

WrapperLists(versions, choices) ==
    UNION {{[k \in 1..n |->
                [Chart |-> SetMeta(UpstreamChart(pick[k][1], ""), "Version", versions[k]),
                 Modified |-> pick[k][2]]] :
               pick \in [1..n -> choices \X BOOLEAN]} : n \in 0..Len(versions)}

CallensureFeaturedAnnotation(existingCharts, newCharts) ==
    /\ conv = NoConv
    /\ LET featured == ensureFeaturedAnnotation(existingCharts, newCharts)
       IN  conv' = [step |-> "ensureFeaturedAnnotation",
                    existingBefore |-> existingCharts, newBefore |-> newCharts,
                    existingAfter |-> featured.existingCharts,
                    newAfter |-> featured.newCharts, err |-> featured.err]
    /\ UNCHANGED <<diskVars, runVars, batch, validatorVars>>

\* The package's part of the disk: asset archives, charts directory, icon.
Disk(assetFiles, unpacked, iconStore) ==
    [assets |-> assetFiles, chartsDir |-> unpacked, icons |-> iconStore]

EmptyDisk == Disk({}, EmptyMap, EmptyMap)

\* The disk after ApplyUpdates has integrated 1.0.0 for a package without
\* overlay or package version.
IntegratedDisk ==
    LET first == ApplyUpdatesResult(NoPackage, <<Plain(1, 0, 0)>>,
                                    <<[ok |-> TRUE, chart |-> PlainChart]>>,
                                    {}, EmptyMap, EmptyMap, DownloadOk)
    IN  Disk(first.assets, first.chartsDir, first.icons)

\* The same disk after the package has been featured: the archive carries
\* the featured annotation.
FeaturedDisk ==
    LET featured == {SetMeta(c, "Annotations",
                             Put(c.Metadata.Annotations, annotationFeatured, "1")) :
                        c \in IntegratedDisk.assets}
    IN  Disk(featured, [v \in DOMAIN IntegratedDisk.chartsDir |->
                           CHOOSE c \in featured : c.Metadata.Version = v],
             IntegratedDisk.icons)

\* Packages whose update succeeds, fails in addAnnotations, or fails in
\* writeCharts.
UpdatePackages ==
    {NoPackage,
     PackageWrapper("latest", <<>>, MaxPatchNum, FALSE, NoOverlay, EmptyMap),
     PackageWrapper("latest", <<>>, 0, FALSE, UnversionedOverlay, EmptyMap)}

CallApplyUpdates(pw, disk, fetched, download) ==
    /\ conv = NoConv
    /\ conv' = [step |-> "ApplyUpdates", packageWrapper |-> pw, before |-> disk,
                applied |-> ApplyUpdatesResult(pw, <<Plain(1, 1, 0)>>, fetched, disk.assets,
                                               disk.chartsDir, disk.icons, download)]
    /\ UNCHANGED <<diskVars, runVars, batch, validatorVars>>

\* The call has returned; the next one starts from scratch.
CallReturns ==
    /\ conv # NoConv
    /\ conv' = NoConv
    /\ UNCHANGED <<diskVars, runVars, batch, validatorVars>>

NextCalls ==
    \/ \E pw \in CallPackages, helmChart \in CallCharts : CalladdAnnotations(pw, helmChart)
    \/ \E helmChart \in CallCharts, overlay \in CallOverlays :
          CallOverlayChartMetadata(helmChart, overlay)
    \/ \E assetFiles \in CallAssets, chartWrappers \in CallWrapperLists :
          CallwriteCharts(assetFiles, chartWrappers)
    \/ \E assetFiles \in CallAssets, packageName \in {PackageName, DashPackage} :
          CallloadExistingCharts(assetFiles, packageName)
    \/ \E existingCharts \in WrapperLists(<<Plain(1, 0, 1), Plain(1, 0, 0)>>, FeaturedChoices),
          newCharts \in WrapperLists(<<Plain(1, 1, 1), Plain(1, 1, 0)>>,
                                     {EmptyMap, Put(EmptyMap, annotationFeatured, "3")}) :
          CallensureFeaturedAnnotation(existingCharts, newCharts)
    \/ \E pw \in UpdatePackages, disk \in {EmptyDisk, IntegratedDisk, FeaturedDisk},
          fetched \in FetchedChoices(1), download \in {DownloadOk, DownloadFails} :
          CallApplyUpdates(pw, disk, fetched, download)
    \/ CallReturns

SpecCalls == Init /\ [][NextCalls]_vars

AnnotationsOf(helmChart) == helmChart.Metadata.Annotations

\* C21: for every package configuration and every new chart, whatever
\* annotations the fetched chart already carried, after addAnnotations has
\* returned without error the chart carries the certified annotation with
\* the value "partner".
C21_CertifiedIsPartner ==
    (conv.step = "addAnnotations" /\ conv.err = NoErr) =>
        /\ Has(AnnotationsOf(conv.after), annotationCertified)
        /\ AnnotationsOf(conv.after)[annotationCertified] = "partner"

\* The part of C21 that addAnnotations keeps: a chart that came without a
\* certified annotation carries certified "partner" afterwards.
C21_HoldsForUncertifiedUpstream ==
    (/\ conv.step = "addAnnotations" /\ conv.err = NoErr
     /\ ~Has(AnnotationsOf(conv.before), annotationCertified)) =>
        /\ Has(AnnotationsOf(conv.after), annotationCertified)
        /\ AnnotationsOf(conv.after)[annotationCertified] = "partner"

\* The kube-version annotation the package configuration and the chart call
\* for, as a set: its value, or nothing for no annotation.
ExpectedKubeVersion(pw, helmChart) ==
    IF pw.UpstreamYaml.ChartMetadata.KubeVersion # ""
    THEN {pw.UpstreamYaml.ChartMetadata.KubeVersion}
    ELSE IF helmChart.Metadata.KubeVersion # "" THEN {helmChart.Metadata.KubeVersion}
    ELSE {}

\* The values a chart carries for an annotation: one or none.
AnnotationValues(helmChart, annotation) ==
    IF Has(AnnotationsOf(helmChart), annotation)
    THEN {AnnotationsOf(helmChart)[annotation]}
    ELSE {}

\* C22: after addAnnotations has returned without error, the kube-version
\* annotation of the chart equals ChartMetadata.KubeVersion of upstream.yaml
\* when that is non-empty, otherwise the chart's own KubeVersion when that
\* is non-empty, and the chart has no kube-version annotation when both are
\* empty.
C22_KubeVersionPrecedence ==
    (conv.step = "addAnnotations" /\ conv.err = NoErr) =>
        AnnotationValues(conv.after, annotationKubeVersion)
            = ExpectedKubeVersion(conv.packageWrapper, conv.before)

\* The part of C22 that addAnnotations keeps: the precedence holds for a
\* chart that came without a kube-version annotation.
C22_HoldsForUnannotatedUpstream ==
    (/\ conv.step = "addAnnotations" /\ conv.err = NoErr
     /\ ~Has(AnnotationsOf(conv.before), annotationKubeVersion)) =>
        AnnotationValues(conv.after, annotationKubeVersion)
            = ExpectedKubeVersion(conv.packageWrapper, conv.before)

\* C23: for every string field of the metadata (Name, Home, Version,
\* Description, Icon, APIVersion, Condition, Tags, AppVersion, KubeVersion,
\* Type), if the overlay's value is non-empty then after
\* OverlayChartMetadata the chart's field equals the overlay's value.
C23_OverlayReplacesStringFields ==
    conv.step = "OverlayChartMetadata" =>
        \A f \in StringFields :
            conv.overlay[f] # ZeroValue(f) => conv.after.Metadata[f] = conv.overlay[f]

\* The part of C23 that OverlayChartMetadata keeps: every string field other
\* than KubeVersion takes the overlay's non-empty value.
C23_HoldsExceptKubeVersion ==
    conv.step = "OverlayChartMetadata" =>
        \A f \in StringFields \ {"KubeVersion"} :
            conv.overlay[f] # ZeroValue(f) => conv.after.Metadata[f] = conv.overlay[f]

\* The archives of a file name in an assets directory: one or none.
ArchivesAt(assetFiles, filename) == {c \in assetFiles : getTgzFilename(c) = filename}

C26_LoadsOnlyOwnPackage ==
    conv.step = "loadExistingCharts" =>
        \A k \in 1..Len(conv.existingCharts) :
            conv.existingCharts[k].Chart.Metadata.Name = conv.packageName

\* The part of C26 that loadExistingCharts keeps: every archive of the
\* package itself is returned, and a package is not given the archives of a
\* package whose name is a prefix of its own.
C26_HoldsForLongerName ==
    (conv.step = "loadExistingCharts" /\ conv.packageName = DashPackage) =>
        {conv.existingCharts[k].Chart : k \in 1..Len(conv.existingCharts)}
            = {c \in conv.assetsBefore : c.Metadata.Name = DashPackage}

\* A wrapper whose Modified flag the call set although the chart's featured
\* annotation is what it was.
MarkedWithoutChange(before, after) ==
    /\ after.Modified /\ ~before.Modified
    /\ AnnotationValues(after.Chart, annotationFeatured)
           = AnnotationValues(before.Chart, annotationFeatured)

\* C25: ensureFeaturedAnnotation sets Modified on a chart only if it added,
\* changed or removed the featured annotation of that chart, and when no
\* existing chart carries a featured value no chart's annotations or
\* Modified flag change.
C25_ModifiedOnlyOnFeaturedChange ==
    conv.step = "ensureFeaturedAnnotation" =>
        /\ Len(conv.existingAfter) = Len(conv.existingBefore)
        /\ Len(conv.newAfter) = Len(conv.newBefore)
        /\ \A k \in 1..Len(conv.existingBefore) :
              ~MarkedWithoutChange(conv.existingBefore[k], conv.existingAfter[k])
        /\ \A k \in 1..Len(conv.newBefore) :
              ~MarkedWithoutChange(conv.newBefore[k], conv.newAfter[k])
        /\ FeaturedValues(conv.existingBefore) \subseteq {""} =>
              /\ conv.existingAfter = conv.existingBefore
              /\ conv.newAfter = conv.newBefore

\* A call that returned nil and set Modified on an existing chart it removed
\* the annotation from, while another existing chart, without the
\* annotation, and a new chart that already carried the value, kept their
\* Modified flag unset.
C25_Witness ==
    /\ conv.step = "ensureFeaturedAnnotation"
    /\ conv.err = NoErr
    /\ \E k \in 1..Len(conv.existingBefore) :
          /\ ~conv.existingBefore[k].Modified
          /\ conv.existingAfter[k].Modified
          /\ IsFeatured(conv.existingBefore[k]) /\ ~IsFeatured(conv.existingAfter[k])
    /\ \E k \in 1..Len(conv.existingBefore) :
          /\ ~IsFeatured(conv.existingBefore[k])
          /\ ~conv.existingAfter[k].Modified
    /\ Len(conv.newBefore) > 0
    /\ IsFeatured(conv.newBefore[Len(conv.newBefore)])
    /\ conv.newAfter[Len(conv.newBefore)] = conv.newBefore[Len(conv.newBefore)]
    /\ ~conv.newAfter[Len(conv.newBefore)].Modified

\* What C26 concludes for writeCharts: the archives of the other package are
\* still in the assets directory after writeCharts for the package.
OtherPackageArchivesKept ==
    conv.step = "writeCharts" =>
        {c \in conv.assetsBefore : c.Metadata.Name = DashPackage} \subseteq conv.assets

(***************************************************************************)
(* The Version Selector after an integration.                              *)
(***************************************************************************)
\* The upstream versions the run in progress has integrated.
IntegratedUpstream ==
    {applied.newBefore[k].Chart.Metadata.Version : k \in 1..Len(applied.newBefore)}

\* What the selector selects in a later run of the package in fetch mode
\* fetch, over the upstream list of the run in progress and against the
\* index that this run writes.
LaterSelection(fetch) ==
    PopulateResult([packageWrapper EXCEPT !.UpstreamYaml.Fetch = fetch],
                   [ok |-> TRUE, versions |-> upstreamVersions],
                   writeIndex(assets, icons)).versions

\* C27: once an upstream version has been integrated and recorded in the
\* index, with or without a package version and whatever its patch number,
\* a later selector run over the same upstream list does not select that
\* version again, in any fetch mode.
C27_IntegratedNeverReselected ==
    (phase = "applied" /\ applied.integrated /\ applied.err = NoErr) =>
        \A fetch \in FetchModes :
            \A u \in IntegratedUpstream : u \notin Range(LaterSelection(fetch))

\* The part of C27 that the selector keeps: a version integrated without a
\* package version, or whose patch number is not 0, is not selected again.
C27_HoldsWithoutEncodedPatchZero ==
    (phase = "applied" /\ applied.integrated /\ applied.err = NoErr) =>
        \A fetch \in FetchModes :
            \A u \in IntegratedUpstream :
                (packageWrapper.UpstreamYaml.PackageVersion = 0 \/ NewVersion(u).patch # 0)
                    => u \notin Range(LaterSelection(fetch))

\* A stored version records an upstream version when it is that version or
\* what GeneratePackageVersion makes of it for some package version.
Records(storedVersion, version) ==
    \/ String(NewVersion(storedVersion)) = String(NewVersion(version))
    \/ \E p \in 1..(MaxPatchNum - 1) :
          /\ ~GeneratePackageVersion(version, p).err
          /\ GeneratePackageVersion(version, p).version = storedVersion

Recorded(version, storedVersions) ==
    \E k \in 1..Len(storedVersions) : Records(storedVersions[k], version)

\* C28: an upstream version is treated as stored only if that version, or a
\* package-version encoding of it, is among the stored versions; in fetch
\* mode `all`, where every version that is not treated as stored is
\* selected, every upstream version left out of the selection is recorded.
C28_StoredOnlyIfRecorded ==
    \A k \in 1..Len(calls) :
        calls[k].fetch = "all" =>
            \A j \in 1..Len(calls[k].versions) :
                calls[k].versions[j] \notin Range(calls[k].result)
                    => Recorded(calls[k].versions[j], calls[k].stored)

\* The part of C28 that the selector keeps: without the genuine upstream
\* version 1.0.100 among the stored versions, only recorded versions are
\* treated as stored.
C28_HoldsBelowMultiplier ==
    \A k \in 1..Len(calls) :
        (calls[k].fetch = "all" /\ Plain(1, 0, 100) \notin Range(calls[k].stored)) =>
            \A j \in 1..Len(calls[k].versions) :
                calls[k].versions[j] \notin Range(calls[k].result)
                    => Recorded(calls[k].versions[j], calls[k].stored)

\* C29: if ApplyUpdates fails, the on-disk state of the package (the asset
\* archives, the charts directory and the icon in local icon storage) is
\* what it was before the call.
C29_FailedUpdateLeavesDisk ==
    (conv.step = "ApplyUpdates" /\ conv.applied.err # NoErr) =>
        Disk(conv.applied.assets, conv.applied.chartsDir, conv.applied.icons) = conv.before

\* The part of C29 that ApplyUpdates keeps: a failure of the fetch or of
\* integrateCharts leaves the asset archives and the charts directory as
\* they were.
C29_HoldsForArchivesBeforeWrite ==
    (conv.step = "ApplyUpdates" /\ conv.applied.err # NoErr /\ ~conv.applied.integrated) =>
        /\ conv.applied.assets = conv.before.assets
        /\ conv.applied.chartsDir = conv.before.chartsDir

(***************************************************************************)
(* The Release Validator when the comparison fails.                        *)
(***************************************************************************)
\* C30: if the comparison of the reference tree with the working copy fails
\* with an error, preventReleasedChartModifications returns at least one
\* error.
C30_ComparisonErrorReported ==
    (validation.step = "validated" /\ validation.compared.err # NoErr) =>
        validation.errors # {}

\* What the validator does report: with a comparison that succeeded, there
\* is an error for every modified path and for nothing else.
C30_HoldsForModifiedPaths ==
    (validation.step = "validated" /\ validation.compared.err = NoErr) =>
        validation.errors = validation.compared.Modified

====
